---- MODULE Spec2Model ----
(***************************************************************************)
(* State-machine model of the ttac seat reservation and settlement core:   *)
(* models.py (rows), services/booking.py, services/seat_lock_service.py,   *)
(* services/wallet.py, services/resale.py (service layer) and views.py     *)
(* (page handlers).                                                        *)
(*                                                                         *)
(* The variables are the committed database rows plus the clock.  A        *)
(* handler decorated with transaction.atomic commits all of its writes or  *)
(* none: an exception that leaves the decorated function rolls every       *)
(* write back, an exception caught inside it does not.  Handlers that      *)
(* take part in a concurrency property also exist in a stepwise form (the  *)
(* request arrives; the handler reads its rows, locking those it reads     *)
(* FOR UPDATE; the handler validates the objects it read, writes and       *)
(* commits) so that a second request can run between the read and the      *)
(* write whenever no row lock forbids it.                                  *)
(*                                                                         *)
(* Time is counted in minutes.  The payment gateway is a black box: an     *)
(* order creation either returns a fresh order reference or raises, and a  *)
(* verification payload is the pair (order reference it names, whether     *)
(* its signature checks out).  generate_ticket_qr, which writes an image   *)
(* to storage, either returns or raises.                                   *)
(***************************************************************************)
EXTENDS Integers, FiniteSets, Sequences, TLC

\* ------------------------------------------------------------------ data
Users == {"X", "Y"}
NoUser == "none"
\* one show with a 1 x 2 seat grid (utils.create_show_seats)
SeatCodes == {"A1", "A2"}
\* a seat code that resolves to no Seat row of the show
UnknownCode == "Z9"
NoTime == -1
Procs == {"p1", "p2"}

LOCK_MINS == 5
BOOKING_CLOSE_MINS == 30
RESALE_CLOSE_HOURS == 3
PricePerSeat == 150
MIN_TOPUP == 10

\* the show starts 190 minutes after the epoch of the model's clock:
\* the resale window closes at minute 10, booking closes at minute 160
ShowTime == 190
\* ticket.show.show_time - timedelta(hours=RESALE_CLOSE_HOURS), in minutes
ResaleExpiry == ShowTime - RESALE_CLOSE_HOURS * 60

\* ---------------------------------------------------------------- bounds
MaxTickets == 2
MaxOrders == 2
Slack == 1
MaxTopups == 1
MaxFunds == 3
MaxBalance == MaxFunds * PricePerSeat
MaxResales == 1
MaxCount == 2
\* listings that may be created where two listing requests overlap
MaxListings == 2

VARIABLES
    now,        \* timezone.now(), in minutes
    seats,      \* Seat rows of the show: seat_code -> row
    tickets,    \* Ticket rows: id -> row
    nextTicket, \* next auto id of Ticket
    pays,       \* Payment rows, one-to-one with Ticket: ticket id -> row
    nextOrder,  \* next order reference the gateway mints
    wallets,    \* Wallet.balance per user
    wpays,      \* WalletPayment rows: id -> row
    resales,    \* TicketResale rows: id -> row
    nextResale, \* next auto id of TicketResale
    rpays,      \* ResalePayment rows, one-to-one with TicketResale: resale id -> row
    req,        \* the request each worker is serving (two-step handlers)
    rowlocks,   \* rows each worker holds FOR UPDATE
    effects,    \* history: how often each settlement effect was applied
    watch,      \* history: the handlers whose answers are recorded
    last        \* history: the latest recorded handler and its answer

vars == <<now, seats, tickets, nextTicket, pays, nextOrder, wallets, wpays,
          resales, nextResale, rpays, req, rowlocks, effects, watch, last>>

FreeSeat == [is_booked |-> FALSE, locked_by |-> NoUser, locked_at |-> NoTime]
IdleReq == [op |-> "idle"]
Empty == <<>>

\* the state after migration and user sign-up: a show with its seats, a
\* zero-balance wallet per user (signals.py), no tickets, no payments
InitWatching(ops) ==
    /\ watch = ops
    /\ last = [op |-> "none", res |-> "none"]
    /\ now = 0
    /\ seats = [c \in SeatCodes |-> FreeSeat]
    /\ tickets = Empty
    /\ nextTicket = 1
    /\ pays = Empty
    /\ nextOrder = 1
    /\ wallets = [u \in Users |-> 0]
    /\ wpays = Empty
    /\ resales = Empty
    /\ nextResale = 1
    /\ rpays = Empty
    /\ req = [p \in Procs |-> IdleReq]
    /\ rowlocks = [p \in Procs |-> {}]
    /\ effects = [confirm |-> Empty, credit |-> Empty, payout |-> Empty, debit |-> Empty]

\* ------------------------------------------------------- row-set helpers
\* f with key k removed / set to v (tables are functions on the ids in use)
Without(f, ks) == [k \in DOMAIN f \ ks |-> f[k]]
With(f, k, v) == [x \in DOMAIN f \cup {k} |-> IF x = k THEN v ELSE f[x]]
Count(f, k) == IF k \in DOMAIN f THEN f[k] ELSE 0
\* the history counters saturate at MaxCount ("more than once")
Bump(f, k) == With(f, k, IF Count(f, k) < MaxCount THEN Count(f, k) + 1 ELSE MaxCount)

\* a worker is between the arrival of its request and its commit
InFlight(p) == req[p].op # "idle" /\ req[p].pc # "done"
NoRequest == \A p \in Procs : ~InFlight(p)
\* the rows and the history counters
db == <<seats, tickets, nextTicket, pays, nextOrder, wallets, wpays, resales,
        nextResale, rpays, effects>>
\* the answer of a watched handler is recorded
Said(op, res) == last' = IF op \in watch THEN [op |-> op, res |-> res] ELSE last

\* rows a transaction can hold FOR UPDATE
Row(tab, code, id) == [tab |-> tab, code |-> code, id |-> id]
ShowRow == Row("show", "", 0)
SeatRow(c) == Row("seat", c, 0)
TicketRow(t) == Row("ticket", "", t)
PayRow(t) == Row("pay", "", t)
WalletRow(u) == Row("wallet", u, 0)
WpayRow(i) == Row("wpay", "", i)
ResaleRow(r) == Row("resale", "", r)
RpayRow(r) == Row("rpay", "", r)
HeldByOther(p, rows) == \E q \in Procs \ {p} : rowlocks[q] \cap rows # {}

\* ================================================================ booking
\* a lock that lasts one minute longer
lock_expiry_time_lenient(t) == t - LOCK_MINS - 1

\* services/booking.py _lock_expiry_time
lock_expiry_time(t) == t - LOCK_MINS

Unlocked(row) == [row EXCEPT !.locked_by = NoUser, !.locked_at = NoTime]
Booked(row) == [is_booked |-> TRUE, locked_by |-> NoUser, locked_at |-> NoTime]

\* services/booking.py release_expired_locks (and utils.release_expired_seat_locks):
\* UPDATE ... WHERE is_booked = false AND locked_at < expiry
release_expired_locks(S, t) ==
    [c \in DOMAIN S |->
        IF ~S[c].is_booked /\ S[c].locked_at # NoTime /\ S[c].locked_at < lock_expiry_time(t)
        THEN Unlocked(S[c])
        ELSE S[c]]

\* a lock test that lets every caller through
LockedByOther_never(row, u, t) == FALSE

\* the lock test lock_seats and seat_select apply against other users
LockedByOther(row, u, t) ==
    /\ row.locked_by # NoUser
    /\ row.locked_by # u
    /\ row.locked_at # NoTime
    /\ row.locked_at > lock_expiry_time(t)

\* lock_seats without its test for booked seats
lock_seats_result_no_booked_check(u, codes, t, S) ==
    IF codes = {} THEN "NoSeats"
    ELSE IF ShowTime < t + BOOKING_CLOSE_MINS THEN "BookingClosed"
    ELSE IF ~(codes \subseteq SeatCodes) THEN "InvalidSeat"
    ELSE IF \E c \in codes : LockedByOther(S[c], u, t) THEN "SeatLockedByOther"
    ELSE "ok"

\* what lock_seats returns; S are the Seat rows it fetched after the purge
lock_seats_result(u, codes, t, S) ==
    IF codes = {} THEN "NoSeats"
    ELSE IF ShowTime < t + BOOKING_CLOSE_MINS THEN "BookingClosed"
    ELSE IF ~(codes \subseteq SeatCodes) THEN "InvalidSeat"
    ELSE IF \E c \in codes : S[c].is_booked THEN "SeatUnavailable"
    ELSE IF \E c \in codes : LockedByOther(S[c], u, t) THEN "SeatLockedByOther"
    ELSE "ok"

\* seat handlers that read without select_for_update
lock_seats_rows_none(codes) == {}

\* rows lock_seats and create_ticket_pending hold FOR UPDATE before they validate
lock_seats_rows(codes) ==
    IF codes = {} THEN {} ELSE {ShowRow} \cup {SeatRow(c) : c \in codes \cap SeatCodes}

\* a lock_seats that, refused for another user's lock, keeps the locks it
\* could take on the other requested seats
lock_seats_apply_partial(u, codes, t, S) ==
    LET res == lock_seats_result(u, codes, t, S) IN
    /\ seats' = IF res \in {"ok", "SeatLockedByOther"}
                THEN [c \in SeatCodes |->
                        IF c \in codes /\ ~LockedByOther(S[c], u, t)
                        THEN [seats[c] EXCEPT !.locked_by = u, !.locked_at = t]
                        ELSE release_expired_locks(seats, t)[c]]
                ELSE seats
    /\ UNCHANGED <<tickets, nextTicket, pays, nextOrder, wallets, wpays, resales, nextResale, rpays, effects>>
    /\ Said("lock_seats", res)

\* the committed effect of lock_seats: a raised ValidationError rolls the purge back
lock_seats_apply(u, codes, t, S) ==
    LET res == lock_seats_result(u, codes, t, S) IN
    /\ seats' = IF res = "ok"
                THEN [c \in SeatCodes |->
                        IF c \in codes
                        THEN [seats[c] EXCEPT !.locked_by = u, !.locked_at = t]
                        ELSE release_expired_locks(seats, t)[c]]
                ELSE seats
    /\ UNCHANGED <<tickets, nextTicket, pays, nextOrder, wallets, wpays, resales, nextResale, rpays, effects>>
    /\ Said("lock_seats", res)

\* services/seat_lock_service.py lock_seats on the Seat rows S: no purge and
\* no expiry test, any lock of another user refuses
seat_lock_service_lock_seats_result(u, codes, S) ==
    IF ~(codes \subseteq SeatCodes) THEN "InvalidSeat"
    ELSE IF \E c \in codes : S[c].is_booked THEN "SeatUnavailable"
    ELSE IF \E c \in codes : S[c].locked_by \notin {NoUser, u} THEN "SeatLockedByOther"
    ELSE "ok"

seat_lock_service_lock_seats_apply(u, codes, t, S) ==
    LET res == seat_lock_service_lock_seats_result(u, codes, S) IN
    /\ seats' = IF res = "ok"
                THEN [c \in SeatCodes |->
                        IF c \in codes
                        THEN [seats[c] EXCEPT !.locked_by = u, !.locked_at = t]
                        ELSE seats[c]]
                ELSE seats
    /\ UNCHANGED <<tickets, nextTicket, pays, nextOrder, wallets, wpays, resales, nextResale, rpays, effects>>
    /\ Said("seat_lock_service", res)

\* create_ticket_pending without its tests of the caller's locks
create_ticket_pending_result_unchecked(u, codes, t, S) ==
    IF codes = {} THEN "NoSeats"
    ELSE IF ~(codes \subseteq SeatCodes) THEN "InvalidSeat"
    ELSE "ok"

\* what create_ticket_pending returns; S as for lock_seats
create_ticket_pending_result(u, codes, t, S) ==
    IF codes = {} THEN "NoSeats"
    ELSE IF ~(codes \subseteq SeatCodes) THEN "InvalidSeat"
    ELSE IF \E c \in codes : S[c].locked_by # u THEN "LockNotHeld"
    ELSE IF \E c \in codes : S[c].locked_at = NoTime \/ S[c].locked_at < lock_expiry_time(t)
         THEN "LockExpired"
    ELSE "ok"

\* a ticket priced as one seat whatever the number of seats
NewTicket_flat_price(u, codes) ==
    [user |-> u, seats |-> codes, total_price |-> PricePerSeat,
     status |-> "PENDING", is_transferred |-> FALSE]

NewTicket(u, codes) ==
    [user |-> u, seats |-> codes, total_price |-> Cardinality(codes) * PricePerSeat,
     status |-> "PENDING", is_transferred |-> FALSE]

create_ticket_pending_apply(u, codes, t, S) ==
    LET res == create_ticket_pending_result(u, codes, t, S) IN
    /\ IF res = "ok"
       THEN /\ nextTicket <= MaxTickets
            /\ seats' = release_expired_locks(seats, t)
            /\ tickets' = With(tickets, nextTicket, NewTicket(u, codes))
            /\ nextTicket' = nextTicket + 1
       ELSE UNCHANGED <<seats, tickets, nextTicket>>
    /\ UNCHANGED <<pays, nextOrder, wallets, wpays, resales, nextResale, rpays, effects>>
    /\ Said("create_ticket_pending", res)

\* the seat rows cs lose their lock
UnlockSeats(S, cs) == [c \in DOMAIN S |-> IF c \in cs THEN Unlocked(S[c]) ELSE S[c]]
\* a confirmation that clears the locks and forgets is_booked
BookSeats_unlock_only(S, tk) == UnlockSeats(S, tk.seats)
\* the seat rows of ticket row tk become booked and unlocked
BookSeats(S, tk) == [c \in DOMAIN S |-> IF c \in tk.seats THEN Booked(S[c]) ELSE S[c]]

\* services/booking.py confirm_ticket_booking on the fetched Ticket row tk
confirm_ticket_booking_result(t, u, tk) ==
    IF tk.user # u THEN "DoesNotExist"
    ELSE IF tk.status = "BOOKED" THEN "AlreadyBooked"
    ELSE IF tk.status # "PENDING" THEN "NotPayable"
    ELSE "ok"

\* ticket rows deleted with their Payment, TicketResale and ResalePayment (CASCADE)
DeleteTicket(t) ==
    LET gone == {r \in DOMAIN resales : resales[r].ticket = t} IN
    /\ tickets' = Without(tickets, {t})
    /\ pays' = Without(pays, {t})
    /\ resales' = Without(resales, gone)
    /\ rpays' = Without(rpays, gone)

\* a fetch that finds no row (DoesNotExist / 404)
NoRow == [missing |-> TRUE]
Fetch(f, k) == IF k \in DOMAIN f THEN f[k] ELSE NoRow

\* ---------------------------------------------------------- seat_select
\* seat_select without the balance test of its wallet branch
seat_select_answer_no_funds_check(u, codes, method, gw_ok, qr_ok, t, Sb, Sl, w) ==
    IF ShowTime <= t + BOOKING_CLOSE_MINS THEN "BookingClosed"
    ELSE IF codes = {} THEN "NoSeats"
    ELSE IF ~(codes \subseteq SeatCodes) THEN "InvalidSeat"
    ELSE IF \E c \in codes : Sb[c].is_booked THEN "SeatUnavailable"
    ELSE IF \E c \in codes : LockedByOther(Sl[c], u, t) THEN "SeatLockedByOther"
    ELSE IF method = "WALLET"
         THEN (IF ~qr_ok THEN "QrFailed" ELSE "BookedByWallet")
    ELSE IF ~gw_ok THEN "GatewayError"
    ELSE "PaymentCreated"

\* views.py seat_select, POST: what the handler answers.  Sb are the Seat
\* rows as its count() and exists() queries read them (after
\* release_expired_seat_locks), Sl the rows as the loop over the queryset
\* reads them FOR UPDATE, w the balance of the Wallet object fetched before
\* the atomic block.
seat_select_answer(u, codes, method, gw_ok, qr_ok, t, Sb, Sl, w) ==
    IF ShowTime <= t + BOOKING_CLOSE_MINS THEN "BookingClosed"
    ELSE IF codes = {} THEN "NoSeats"
    ELSE IF ~(codes \subseteq SeatCodes) THEN "InvalidSeat"
    ELSE IF \E c \in codes : Sb[c].is_booked THEN "SeatUnavailable"
    ELSE IF \E c \in codes : LockedByOther(Sl[c], u, t) THEN "SeatLockedByOther"
    ELSE IF method = "WALLET"
         THEN (IF w < Cardinality(codes) * PricePerSeat THEN "InsufficientFunds"
               ELSE IF ~qr_ok THEN "QrFailed"
               ELSE "BookedByWallet")
    ELSE IF ~gw_ok THEN "GatewayError"
    ELSE "PaymentCreated"

\* the answer when no other request commits between the handler's queries
seat_select_result(u, codes, method, gw_ok, qr_ok, t, S, w) ==
    seat_select_answer(u, codes, method, gw_ok, qr_ok, t, S, S, w)

\* razorpay_order_id of a wallet-paid Payment: f"WALLET_{ticket.id}"
WalletOrder(t) == 0 - t

\* what seat_select leaves committed when it answers res
seat_select_effect(res, u, codes, t, w) ==
    LET purged == release_expired_locks(seats, t)
        tid == nextTicket
        tk == NewTicket(u, codes)
    IN
    /\ CASE res \in {"BookingClosed", "NoSeats", "InvalidSeat", "SeatUnavailable",
                      "SeatLockedByOther", "QrFailed"} ->
              \* the purge ran in autocommit mode before the atomic block; an
              \* exception of generate_ticket_qr leaves the block and rolls it back
              /\ seats' = purged
              /\ UNCHANGED <<tickets, nextTicket, pays, nextOrder, wallets, effects>>
         [] res \in {"InsufficientFunds", "GatewayError"} ->
              \* locks released, the Ticket row created and deleted again
              /\ nextTicket <= MaxTickets
              /\ seats' = UnlockSeats(purged, codes)
              /\ nextTicket' = nextTicket + 1
              /\ UNCHANGED <<tickets, pays, nextOrder, wallets, effects>>
         [] res = "BookedByWallet" ->
              /\ nextTicket <= MaxTickets
              /\ seats' = BookSeats(purged, tk)
              /\ tickets' = With(tickets, tid, [tk EXCEPT !.status = "BOOKED"])
              /\ nextTicket' = nextTicket + 1
              /\ pays' = With(pays, tid, [razorpay_order_id |-> WalletOrder(tid),
                                          amount |-> tk.total_price, status |-> "PAID"])
              /\ wallets' = [wallets EXCEPT ![u] = w - tk.total_price]
              /\ effects' = [effects EXCEPT !.confirm = Bump(@, tid)]
              /\ UNCHANGED nextOrder
         [] res = "PaymentCreated" ->
              /\ nextTicket <= MaxTickets
              /\ nextOrder <= MaxOrders
              /\ seats' = [c \in SeatCodes |->
                            IF c \in codes
                            THEN [purged[c] EXCEPT !.locked_by = u, !.locked_at = t]
                            ELSE purged[c]]
              /\ tickets' = With(tickets, tid, tk)
              /\ nextTicket' = nextTicket + 1
              /\ pays' = With(pays, tid, [razorpay_order_id |-> nextOrder,
                                          amount |-> tk.total_price, status |-> "CREATED"])
              /\ nextOrder' = nextOrder + 1
              /\ UNCHANGED <<wallets, effects>>
    /\ UNCHANGED <<wpays, resales, nextResale, rpays>>
    /\ Said("seat_select", res)

seat_select_apply(u, codes, method, gw_ok, qr_ok, t, S, w) ==
    seat_select_effect(seat_select_result(u, codes, method, gw_ok, qr_ok, t, S, w),
                       u, codes, t, w)

\* ------------------------------------------- booking payment (service)
\* services/booking.py create_booking_razorpay_order
create_booking_razorpay_order_result(t, u, gw_ok, tk) ==
    IF tk = NoRow THEN "DoesNotExist"
    ELSE IF tk.user # u THEN "DoesNotExist"
    ELSE IF tk.status # "PENDING" THEN "NotPending"
    ELSE IF ~gw_ok THEN "GatewayError"
    ELSE "ok"

create_booking_razorpay_order_apply(t, u, gw_ok, tk) ==
    LET res == create_booking_razorpay_order_result(t, u, gw_ok, tk) IN
    /\ IF res = "ok"
       THEN /\ nextOrder <= MaxOrders
            \* update_or_create(ticket=ticket, defaults=...)
            /\ pays' = With(pays, t, [razorpay_order_id |-> nextOrder,
                                      amount |-> tk.total_price, status |-> "CREATED"])
            /\ nextOrder' = nextOrder + 1
       ELSE UNCHANGED <<pays, nextOrder>>
    /\ UNCHANGED <<seats, tickets, nextTicket, wallets, wpays, resales, nextResale, rpays, effects>>
    /\ Said("create_booking_razorpay_order", res)

\* verify_booking_payment without its "already verified" return
verify_booking_payment_result_no_replay(t, u, payload, tk, pay) ==
    IF tk = NoRow \/ pay = NoRow THEN "DoesNotExist"
    ELSE IF tk.user # u THEN "DoesNotExist"
    ELSE IF pay.razorpay_order_id # payload.order THEN "OrderMismatch"
    ELSE IF ~payload.sig_ok THEN "SignatureInvalid"
    ELSE IF tk.status = "BOOKED" THEN "PaidAlreadyBooked"
    ELSE IF tk.status # "PENDING" THEN "NotPayable"
    ELSE "PaidAndBooked"

\* services/booking.py verify_booking_payment: what it returns, on the
\* fetched Ticket row tk and Payment row pay
verify_booking_payment_result(t, u, payload, tk, pay) ==
    IF tk = NoRow \/ pay = NoRow THEN "DoesNotExist"
    ELSE IF tk.user # u THEN "DoesNotExist"
    ELSE IF pay.status = "PAID" THEN "AlreadyPaid"
    ELSE IF pay.razorpay_order_id # payload.order THEN "OrderMismatch"
    ELSE IF ~payload.sig_ok THEN "SignatureInvalid"
    ELSE IF tk.status = "BOOKED" THEN "PaidAlreadyBooked"
    ELSE IF tk.status # "PENDING" THEN "NotPayable"
    ELSE "PaidAndBooked"

\* its committed effect: every raised ValidationError rolls back the FAILED mark
verify_booking_payment_apply(t, u, payload, tk, pay) ==
    LET res == verify_booking_payment_result(t, u, payload, tk, pay) IN
    /\ CASE res = "PaidAndBooked" ->
              /\ t \in DOMAIN pays /\ t \in DOMAIN tickets
              /\ pays' = [pays EXCEPT ![t].status = "PAID"]
              /\ seats' = BookSeats(seats, tk)
              /\ tickets' = [tickets EXCEPT ![t].status = "BOOKED"]
              /\ effects' = [effects EXCEPT !.confirm = Bump(@, t)]
         [] res = "PaidAlreadyBooked" ->
              /\ t \in DOMAIN pays
              /\ pays' = [pays EXCEPT ![t].status = "PAID"]
              /\ UNCHANGED <<seats, tickets, effects>>
         [] OTHER -> UNCHANGED <<seats, tickets, pays, effects>>
    /\ UNCHANGED <<nextTicket, nextOrder, wallets, wpays, resales, nextResale, rpays>>
    /\ Said("verify_booking_payment", res)

\* ---------------------------------------------- booking payment (page)
\* views.py verify_payment, POST
\* (qr_ok: generate_ticket_qr, which writes the image to storage, returns)
verify_payment_result(t, u, payload, qr_ok, tk, pay) ==
    IF tk = NoRow \/ pay = NoRow THEN "NotFound"
    ELSE IF tk.user # u THEN "NotFound"
    ELSE IF ~payload.sig_ok THEN "Failed"
    ELSE IF ~qr_ok THEN "QrFailed"
    ELSE "PaidAndBooked"

verify_payment_apply(t, u, payload, qr_ok, tk, pay) ==
    LET res == verify_payment_result(t, u, payload, qr_ok, tk, pay) IN
    /\ CASE res = "PaidAndBooked" ->
              /\ t \in DOMAIN pays /\ t \in DOMAIN tickets
              \* payment.save() and ticket.save() write every field of the fetched objects
              /\ pays' = [pays EXCEPT ![t] = [pay EXCEPT !.status = "PAID"]]
              /\ tickets' = [tickets EXCEPT ![t] = [tk EXCEPT !.status = "BOOKED"]]
              /\ seats' = BookSeats(seats, tk)
              /\ effects' = [effects EXCEPT !.confirm = Bump(@, t)]
              /\ UNCHANGED <<resales, rpays>>
         [] res = "Failed" ->
              /\ t \in DOMAIN pays /\ t \in DOMAIN tickets
              /\ seats' = UnlockSeats(seats, tk.seats)
              /\ DeleteTicket(t)
              /\ UNCHANGED effects
         [] res = "QrFailed" ->
              \* the except branch runs after the seats were booked: it commits
              \* the booked seats and deletes the ticket
              /\ t \in DOMAIN pays /\ t \in DOMAIN tickets
              /\ seats' = BookSeats(seats, tk)
              /\ DeleteTicket(t)
              /\ effects' = [effects EXCEPT !.confirm = Bump(@, t)]
         [] OTHER -> UNCHANGED <<seats, tickets, pays, resales, rpays, effects>>
    /\ UNCHANGED <<nextTicket, nextOrder, wallets, wpays, nextResale>>
    /\ Said("verify_payment", res)

\* ================================================================= wallet
\* a debit that never checks the balance
wallet_pay_result_unchecked(u, amount, w) == "ok"
\* a debit that refuses to spend the whole balance
wallet_pay_result_strict(u, amount, w) ==
    IF w <= amount THEN "InsufficientFunds" ELSE "ok"

\* services/wallet.py wallet_pay on the fetched balance w
wallet_pay_result(u, amount, w) ==
    IF w < amount THEN "InsufficientFunds" ELSE "ok"

wallet_pay_apply(u, amount, w) ==
    LET res == wallet_pay_result(u, amount, w) IN
    /\ IF res = "ok"
       THEN /\ wallets' = [wallets EXCEPT ![u] = w - amount]
            /\ effects' = [effects EXCEPT !.debit = Bump(@, u)]
       ELSE UNCHANGED <<wallets, effects>>
    /\ UNCHANGED <<seats, tickets, nextTicket, pays, nextOrder, wpays, resales, nextResale, rpays>>
    /\ Said("wallet_pay", res)

\* services/wallet.py create_wallet_topup_order (views.py wallet_add_money does the same)
create_wallet_topup_order_result(u, amount, gw_ok) ==
    IF amount < MIN_TOPUP THEN "BelowMinimum"
    ELSE IF ~gw_ok THEN "GatewayError"
    ELSE "ok"

NextWpay == Cardinality(DOMAIN wpays) + 1

create_wallet_topup_order_apply(u, amount, gw_ok) ==
    LET res == create_wallet_topup_order_result(u, amount, gw_ok) IN
    /\ IF res = "ok"
       THEN /\ NextWpay <= MaxTopups
            /\ nextOrder <= MaxOrders
            /\ wpays' = With(wpays, NextWpay, [user |-> u, razorpay_order_id |-> nextOrder,
                                               amount |-> amount, status |-> "CREATED"])
            /\ nextOrder' = nextOrder + 1
       ELSE UNCHANGED <<wpays, nextOrder>>
    /\ UNCHANGED <<seats, tickets, nextTicket, pays, wallets, resales, nextResale, rpays, effects>>
    /\ Said("create_wallet_topup_order", res)

\* services/wallet.py verify_wallet_topup on the fetched WalletPayment row wp
verify_wallet_topup_result(i, u, payload, wp) ==
    IF wp = NoRow THEN "DoesNotExist"
    ELSE IF wp.user # u THEN "DoesNotExist"
    ELSE IF wp.status = "PAID" THEN "AlreadyPaid"
    ELSE IF ~payload.sig_ok THEN "SignatureInvalid"
    ELSE "Credited"

\* the wallet credit both top-up verifications apply
CreditTopup(i, u, wp) ==
    /\ wallets[u] + wp.amount <= MaxBalance
    /\ wallets' = [wallets EXCEPT ![u] = @ + wp.amount]
    /\ effects' = [effects EXCEPT !.credit = Bump(@, i)]

verify_wallet_topup_apply(i, u, payload, wp) ==
    LET res == verify_wallet_topup_result(i, u, payload, wp) IN
    /\ IF res = "Credited"
       THEN /\ wpays' = [wpays EXCEPT ![i] = [wp EXCEPT !.status = "PAID"]]
            /\ CreditTopup(i, u, wp)
       ELSE UNCHANGED <<wpays, wallets, effects>>
    /\ UNCHANGED <<seats, tickets, nextTicket, pays, nextOrder, resales, nextResale, rpays>>
    /\ Said("verify_wallet_topup", res)

\* views.py wallet_verify_payment, POST
wallet_verify_payment_result(i, u, payload, wp) ==
    IF wp = NoRow THEN "NotFound"
    ELSE IF wp.user # u THEN "NotFound"
    ELSE IF payload.sig_ok THEN "Credited"
    ELSE "Failed"

wallet_verify_payment_apply(i, u, payload, wp) ==
    LET res == wallet_verify_payment_result(i, u, payload, wp) IN
    /\ CASE res = "Credited" ->
              /\ wpays' = [wpays EXCEPT ![i] = [wp EXCEPT !.status = "PAID"]]
              /\ CreditTopup(i, u, wp)
         [] res = "Failed" ->
              /\ wpays' = [wpays EXCEPT ![i] = [wp EXCEPT !.status = "FAILED"]]
              /\ UNCHANGED <<wallets, effects>>
         [] OTHER -> UNCHANGED <<wpays, wallets, effects>>
    /\ UNCHANGED <<seats, tickets, nextTicket, pays, nextOrder, resales, nextResale, rpays>>
    /\ Said("wallet_verify_payment", res)

\* ================================================================= resale
\* a window that is still open at the cutoff instant itself
resale_expired_late(t) == t > ResaleExpiry

\* services/resale.py resale_expired
resale_expired(t) == t >= ResaleExpiry

Listed(t) == \E r \in DOMAIN resales : resales[r].ticket = t

\* services/resale.py list_ticket_for_resale on the fetched Ticket row tk
list_ticket_for_resale_result(u, t, at, tk) ==
    IF tk = NoRow THEN "DoesNotExist"
    ELSE IF tk.user # u THEN "DoesNotExist"
    ELSE IF tk.status # "BOOKED" THEN "NotBooked"
    ELSE IF tk.is_transferred THEN "AlreadyTransferred"
    ELSE IF resale_expired(at) THEN "ResaleWindowClosed"
    ELSE IF Listed(t) THEN "AlreadyListed"
    ELSE "ok"

list_ticket_for_resale_apply(u, t, at, tk) ==
    LET res == list_ticket_for_resale_result(u, t, at, tk) IN
    /\ IF res = "ok"
       THEN /\ nextResale <= MaxResales
            /\ resales' = With(resales, nextResale,
                               [ticket |-> t, seller |-> u, buyer |-> NoUser,
                                resale_price |-> tk.total_price, is_sold |-> FALSE])
            /\ nextResale' = nextResale + 1
       ELSE UNCHANGED <<resales, nextResale>>
    /\ UNCHANGED <<seats, tickets, nextTicket, pays, nextOrder, wallets, wpays, rpays, effects>>
    /\ Said("list_ticket_for_resale", res)

\* an expiry sweep that takes sold listings too
expire_resales_sold_too(R, T, at) ==
    {r \in DOMAIN R : /\ R[r].ticket \in DOMAIN T
                      /\ T[R[r].ticket].status = "BOOKED"
                      /\ resale_expired(at)}

\* views.py expire_resales: the listings it deletes (unsold, of a BOOKED
\* ticket, window closed)
expire_resales(R, T, at) ==
    {r \in DOMAIN R : /\ ~R[r].is_sold
                      /\ R[r].ticket \in DOMAIN T
                      /\ T[R[r].ticket].status = "BOOKED"
                      /\ resale_expired(at)}

ListedIn(R, t) == \E r \in DOMAIN R : R[r].ticket = t

\* views.py list_ticket_for_resale on the fetched Ticket row tk; R are the
\* listings left by expire_resales
views_list_ticket_for_resale_result(u, t, at, tk, R) ==
    IF tk = NoRow THEN "NotFound"
    ELSE IF tk.user # u THEN "NotFound"
    ELSE IF tk.status # "BOOKED" THEN "NotBooked"
    ELSE IF tk.is_transferred THEN "AlreadyTransferred"
    ELSE IF resale_expired(at) THEN "ResaleWindowClosed"
    ELSE IF ListedIn(R, t) THEN "AlreadyListed"
    ELSE "ok"

\* the handler is not atomic: the deletes of expire_resales stay whatever it answers
views_list_ticket_for_resale_apply(u, t, at, tk) ==
    LET gone == expire_resales(resales, tickets, at)
        kept == Without(resales, gone)
        res == views_list_ticket_for_resale_result(u, t, at, tk, kept)
    IN
    /\ IF res = "ok"
       THEN /\ nextResale <= MaxResales
            /\ resales' = With(kept, nextResale,
                               [ticket |-> t, seller |-> u, buyer |-> NoUser,
                                resale_price |-> tk.total_price, is_sold |-> FALSE])
            /\ nextResale' = nextResale + 1
       ELSE resales' = kept /\ UNCHANGED nextResale
    /\ rpays' = Without(rpays, gone)
    /\ UNCHANGED <<seats, tickets, nextTicket, pays, nextOrder, wallets, wpays, effects>>
    /\ Said("list_ticket_for_resale", res)

\* the unsold TicketResale row a buy handler fetches: get(id=r, is_sold=False)
FetchUnsold(r) ==
    IF r \in DOMAIN resales /\ ~resales[r].is_sold THEN resales[r] ELSE NoRow

\* services/resale.py create_resale_buy_order on the fetched TicketResale row rs
create_resale_buy_order_result(u, r, gw_ok, at, rs) ==
    IF rs = NoRow THEN "DoesNotExist"
    ELSE IF rs.seller = u THEN "CannotBuyOwn"
    ELSE IF resale_expired(at) THEN "ResaleWindowClosed"
    ELSE IF ~gw_ok THEN "GatewayError"
    ELSE "ok"

\* its committed effect: the raise after resale.delete() rolls the delete back
create_resale_buy_order_apply(u, r, gw_ok, at, rs) ==
    LET res == create_resale_buy_order_result(u, r, gw_ok, at, rs) IN
    /\ IF res = "ok"
       THEN /\ nextOrder <= MaxOrders
            /\ rpays' = With(rpays, r, [razorpay_order_id |-> nextOrder,
                                        amount |-> rs.resale_price, status |-> "CREATED"])
            /\ nextOrder' = nextOrder + 1
       ELSE UNCHANGED <<rpays, nextOrder>>
    /\ UNCHANGED <<seats, tickets, nextTicket, pays, wallets, wpays, resales, nextResale, effects>>
    /\ Said("create_resale_buy_order", res)

\* views.py buy_resale_ticket on the unsold TicketResale row rs it fetched
\* after expire_resales
buy_resale_ticket_result(u, r, gw_ok, at, rs) ==
    IF rs = NoRow THEN "NotFound"
    ELSE IF rs.seller = u THEN "CannotBuyOwn"
    ELSE IF resale_expired(at) THEN "ResaleWindowClosed"
    ELSE IF ~gw_ok THEN "GatewayError"
    ELSE "ok"

\* the handler is atomic: the 404 and an exception of the gateway leave it
\* and roll back the deletes of expire_resales, a redirect commits them
buy_resale_ticket_apply(u, r, gw_ok, at) ==
    LET gone == expire_resales(resales, tickets, at)
        kept == Without(resales, gone)
        rs == IF r \in DOMAIN kept /\ ~kept[r].is_sold THEN kept[r] ELSE NoRow
        res == buy_resale_ticket_result(u, r, gw_ok, at, rs)
    IN
    /\ CASE res \in {"NotFound", "GatewayError"} ->
              UNCHANGED <<resales, rpays, nextOrder>>
         [] res = "CannotBuyOwn" ->
              /\ resales' = kept
              /\ rpays' = Without(rpays, gone)
              /\ UNCHANGED nextOrder
         [] res = "ResaleWindowClosed" ->
              /\ resales' = Without(kept, {r})
              /\ rpays' = Without(rpays, gone \cup {r})
              /\ UNCHANGED nextOrder
         [] res = "ok" ->
              /\ nextOrder <= MaxOrders
              /\ resales' = kept
              /\ rpays' = With(Without(rpays, gone), r,
                               [razorpay_order_id |-> nextOrder,
                                amount |-> rs.resale_price, status |-> "CREATED"])
              /\ nextOrder' = nextOrder + 1
    /\ UNCHANGED <<seats, tickets, nextTicket, pays, wallets, wpays, nextResale, effects>>
    /\ Said("buy_resale_ticket", res)

\* a transfer that pays the buyer instead of the seller
Transfer_credit_buyer(u, r, rs, rp, tk) ==
    /\ r \in DOMAIN resales /\ r \in DOMAIN rpays /\ rs.ticket \in DOMAIN tickets
    /\ wallets[u] + rs.resale_price <= MaxBalance
    /\ rpays' = [rpays EXCEPT ![r] = [rp EXCEPT !.status = "PAID"]]
    /\ tickets' = [tickets EXCEPT ![rs.ticket] = [tk EXCEPT !.user = u, !.is_transferred = TRUE]]
    /\ resales' = [resales EXCEPT ![r] = [rs EXCEPT !.buyer = u, !.is_sold = TRUE]]
    /\ wallets' = [wallets EXCEPT ![u] = @ + rs.resale_price]
    /\ effects' = [effects EXCEPT !.payout = Bump(@, r)]

\* the transfer both resale verifications apply: the ResalePayment PAID, the
\* Ticket handed to the buyer, the listing sold, the seller's wallet credited
Transfer(u, r, rs, rp, tk) ==
    /\ r \in DOMAIN resales /\ r \in DOMAIN rpays /\ rs.ticket \in DOMAIN tickets
    /\ wallets[rs.seller] + rs.resale_price <= MaxBalance
    /\ rpays' = [rpays EXCEPT ![r] = [rp EXCEPT !.status = "PAID"]]
    /\ tickets' = [tickets EXCEPT ![rs.ticket] = [tk EXCEPT !.user = u, !.is_transferred = TRUE]]
    /\ resales' = [resales EXCEPT ![r] = [rs EXCEPT !.buyer = u, !.is_sold = TRUE]]
    /\ wallets' = [wallets EXCEPT ![rs.seller] = @ + rs.resale_price]
    /\ effects' = [effects EXCEPT !.payout = Bump(@, r)]

\* services/resale.py verify_resale_buy_payment on the fetched rows
verify_resale_buy_payment_result(u, r, payload, at, rs, rp) ==
    IF rs = NoRow \/ rp = NoRow THEN "DoesNotExist"
    ELSE IF rs.seller = u THEN "CannotBuyOwn"
    ELSE IF resale_expired(at) THEN "ResaleWindowClosed"
    ELSE IF ~payload.sig_ok THEN "SignatureInvalid"
    ELSE "Transferred"

verify_resale_buy_payment_apply(u, r, payload, at, rs, rp) ==
    LET res == verify_resale_buy_payment_result(u, r, payload, at, rs, rp) IN
    /\ IF res = "Transferred"
       THEN Transfer(u, r, rs, rp, Fetch(tickets, rs.ticket))
       ELSE UNCHANGED <<tickets, wallets, resales, rpays, effects>>
    /\ UNCHANGED <<seats, nextTicket, pays, nextOrder, wpays, nextResale>>
    /\ Said("verify_resale_buy_payment", res)

\* views.py verify_resale_payment, POST
verify_resale_payment_result(u, r, payload, qr_ok, at, rs, rp) ==
    IF rs = NoRow THEN "NotFound"
    ELSE IF resale_expired(at) THEN "ResaleWindowClosed"
    ELSE IF rp = NoRow THEN "NotFound"
    ELSE IF ~payload.sig_ok THEN "Failed"
    ELSE IF ~qr_ok THEN "QrFailed"
    ELSE "Transferred"

verify_resale_payment_apply(u, r, payload, qr_ok, at, rs, rp) ==
    LET res == verify_resale_payment_result(u, r, payload, qr_ok, at, rs, rp) IN
    /\ CASE res = "Transferred" -> Transfer(u, r, rs, rp, Fetch(tickets, rs.ticket))
         [] res = "ResaleWindowClosed" ->
              \* resale.delete() and a normal return: the delete commits
              /\ resales' = Without(resales, {r})
              /\ rpays' = Without(rpays, {r})
              /\ UNCHANGED <<tickets, wallets, effects>>
         [] res = "Failed" ->
              /\ r \in DOMAIN rpays
              /\ rpays' = [rpays EXCEPT ![r] = [rp EXCEPT !.status = "FAILED"]]
              /\ UNCHANGED <<tickets, wallets, resales, effects>>
         [] res = "QrFailed" ->
              \* generate_ticket_qr raised after ticket.save(): the except branch
              \* marks the payment FAILED and the handler returns, so both commit
              /\ r \in DOMAIN rpays /\ rs.ticket \in DOMAIN tickets
              /\ rpays' = [rpays EXCEPT ![r] = [rp EXCEPT !.status = "FAILED"]]
              /\ tickets' = [tickets EXCEPT ![rs.ticket] =
                                [Fetch(tickets, rs.ticket) EXCEPT !.user = u, !.is_transferred = TRUE]]
              /\ UNCHANGED <<wallets, resales, effects>>
         [] OTHER -> UNCHANGED <<tickets, wallets, resales, rpays, effects>>
    /\ UNCHANGED <<seats, nextTicket, pays, nextOrder, wpays, nextResale>>
    /\ Said("verify_resale_payment", res)

\* views.py cancel_resale_listing
cancel_resale_listing_result(u, r, rs) ==
    IF rs = NoRow THEN "NotFound"
    ELSE IF rs.seller # u THEN "NotAllowed"
    ELSE IF rs.is_sold THEN "AlreadySold"
    ELSE "ok"

cancel_resale_listing_apply(u, r, rs) ==
    LET res == cancel_resale_listing_result(u, r, rs) IN
    /\ IF res = "ok"
       THEN /\ resales' = Without(resales, {r})
            /\ rpays' = Without(rpays, {r})
       ELSE UNCHANGED <<resales, rpays>>
    /\ UNCHANGED <<seats, tickets, nextTicket, pays, nextOrder, wallets, wpays, nextResale, effects>>
    /\ Said("cancel_resale_listing", res)

\* =============================================================== requests
\* what a client can send
CodeSets == SUBSET SeatCodes \cup {{UnknownCode}}
Payloads == [order : 1..MaxOrders, sig_ok : BOOLEAN]
Methods == {"WALLET", "RAZORPAY"}
TopupAmounts == {MIN_TOPUP - 1, PricePerSeat}
PayAmounts == {PricePerSeat, 2 * PricePerSeat}
TicketIds == 1..MaxTickets
WpayIds == 1..MaxTopups
ResaleIds == 1..MaxResales

\* a handler that runs from its first statement to its commit with no other
\* request in between
Alone == NoRequest /\ UNCHANGED <<now, req, rowlocks, watch>>

LockSeats(u, codes) ==
    Alone /\ lock_seats_apply(u, codes, now, release_expired_locks(seats, now))

SeatLockService(u, codes) ==
    Alone /\ seat_lock_service_lock_seats_apply(u, codes, now, seats)

CreateTicketPending(u, codes) ==
    Alone /\ create_ticket_pending_apply(u, codes, now, release_expired_locks(seats, now))

SeatSelectWallet(u, codes, qr_ok) ==
    Alone /\ seat_select_apply(u, codes, "WALLET", TRUE, qr_ok, now,
                               release_expired_locks(seats, now), wallets[u])

SeatSelectRazorpay(u, codes, gw_ok) ==
    Alone /\ seat_select_apply(u, codes, "RAZORPAY", gw_ok, TRUE, now,
                               release_expired_locks(seats, now), wallets[u])

CreateBookingOrder(u, t, gw_ok) ==
    Alone /\ create_booking_razorpay_order_apply(t, u, gw_ok, Fetch(tickets, t))

VerifyBookingPayment(u, t, payload) ==
    Alone /\ verify_booking_payment_apply(t, u, payload, Fetch(tickets, t), Fetch(pays, t))

VerifyPayment(u, t, payload, qr_ok) ==
    Alone /\ verify_payment_apply(t, u, payload, qr_ok, Fetch(tickets, t), Fetch(pays, t))

WalletPay(u, amount) ==
    Alone /\ wallet_pay_apply(u, amount, wallets[u])

CreateWalletTopupOrder(u, amount, gw_ok) ==
    Alone /\ create_wallet_topup_order_apply(u, amount, gw_ok)

VerifyWalletTopup(u, i, payload) ==
    Alone /\ verify_wallet_topup_apply(i, u, payload, Fetch(wpays, i))

WalletVerifyPayment(u, i, payload) ==
    Alone /\ wallet_verify_payment_apply(i, u, payload, Fetch(wpays, i))

ListTicketForResale(u, t) ==
    Alone /\ list_ticket_for_resale_apply(u, t, now, Fetch(tickets, t))

CreateResaleBuyOrder(u, r, gw_ok) ==
    Alone /\ create_resale_buy_order_apply(u, r, gw_ok, now, FetchUnsold(r))

VerifyResaleBuyPayment(u, r, payload) ==
    Alone /\ verify_resale_buy_payment_apply(u, r, payload, now, FetchUnsold(r), Fetch(rpays, r))

VerifyResalePayment(u, r, payload, qr_ok) ==
    Alone /\ verify_resale_payment_apply(u, r, payload, qr_ok, now, FetchUnsold(r), Fetch(rpays, r))

CancelResaleListing(u, r) ==
    Alone /\ cancel_resale_listing_apply(u, r, Fetch(resales, r))

ListTicketForResalePage(u, t) ==
    Alone /\ views_list_ticket_for_resale_apply(u, t, now, Fetch(tickets, t))

BuyResaleTicket(u, r, gw_ok) ==
    Alone /\ buy_resale_ticket_apply(u, r, gw_ok, now)

\* time passes between requests: the clock moves to a later instant of `instants`
TickTo(instants) ==
    /\ NoRequest
    /\ \E t \in instants : t > now /\ now' = t
    /\ UNCHANGED <<seats, tickets, nextTicket, pays, nextOrder, wallets, wpays,
                   resales, nextResale, rpays, req, rowlocks, effects, watch, last>>

\* ------------------------------------------- booking, one request at a time
\* the instants the clock visits: the start and the instants around the
\* expiry of a lock taken at the start
BookingInstants == {0} \cup (LOCK_MINS .. LOCK_MINS + Slack)
TickBooking == TickTo(BookingInstants)

NextBooking ==
    \/ TickBooking
    \/ \E u \in Users, codes \in CodeSets : LockSeats(u, codes)
    \/ \E u \in Users, codes \in CodeSets : CreateTicketPending(u, codes)
    \/ \E u \in Users, codes \in CodeSets, gw_ok \in BOOLEAN : SeatSelectRazorpay(u, codes, gw_ok)
    \/ \E u \in Users, t \in TicketIds, gw_ok \in BOOLEAN : CreateBookingOrder(u, t, gw_ok)
    \/ \E u \in Users, t \in TicketIds, payload \in Payloads : VerifyBookingPayment(u, t, payload)
    \/ \E u \in Users, t \in TicketIds, payload \in Payloads, qr_ok \in BOOLEAN :
            VerifyPayment(u, t, payload, qr_ok)

SpecBooking == InitWatching({}) /\ [][NextBooking]_vars

\* --------------------------------- booking through the service layer only
NextApi ==
    \/ TickBooking
    \/ \E u \in Users, codes \in CodeSets : LockSeats(u, codes)
    \/ \E u \in Users, codes \in CodeSets : CreateTicketPending(u, codes)
    \/ \E u \in Users, t \in TicketIds, gw_ok \in BOOLEAN : CreateBookingOrder(u, t, gw_ok)
    \/ \E u \in Users, t \in TicketIds, payload \in Payloads : VerifyBookingPayment(u, t, payload)

SpecApi == InitWatching({"verify_booking_payment"}) /\ [][NextApi]_vars

\* ------------------------------ taking seats, every answer recorded
NextLocks ==
    \/ TickBooking
    \/ \E u \in Users, codes \in CodeSets : LockSeats(u, codes)
    \/ \E u \in Users, codes \in CodeSets : SeatLockService(u, codes)
    \/ \E u \in Users, codes \in CodeSets : CreateTicketPending(u, codes)
    \/ \E u \in Users, codes \in CodeSets : SeatSelectRazorpay(u, codes, TRUE)
    \/ \E t \in DOMAIN tickets, payload \in Payloads :
            VerifyBookingPayment(tickets[t].user, t, payload)

SpecLocks ==
    /\ InitWatching({"lock_seats", "seat_lock_service", "create_ticket_pending", "seat_select"})
    /\ [][NextLocks]_vars

\* ------------------------------ taking seats around the close of booking
\* the instants the clock visits: the start and the instants around
\* show_time - BOOKING_CLOSE_MINS
CloseInstants ==
    {0} \cup ((ShowTime - BOOKING_CLOSE_MINS - Slack) .. (ShowTime - BOOKING_CLOSE_MINS + Slack))
TickClose == TickTo(CloseInstants)

NextClose ==
    \/ TickClose
    \/ \E u \in Users, codes \in CodeSets : LockSeats(u, codes)
    \/ \E u \in Users, codes \in CodeSets : CreateTicketPending(u, codes)
    \/ \E u \in Users, codes \in CodeSets : SeatSelectRazorpay(u, codes, TRUE)

SpecClose ==
    /\ InitWatching({"lock_seats", "create_ticket_pending", "seat_select"})
    /\ [][NextClose]_vars

\* ------------------------------------------------ the wallet on its own
NextWallet ==
    \/ \E u \in Users, amount \in TopupAmounts, gw_ok \in BOOLEAN :
            CreateWalletTopupOrder(u, amount, gw_ok)
    \/ \E u \in Users, i \in WpayIds, payload \in Payloads : VerifyWalletTopup(u, i, payload)
    \/ \E u \in Users, i \in WpayIds, payload \in Payloads : WalletVerifyPayment(u, i, payload)
    \/ \E u \in Users, amount \in PayAmounts : WalletPay(u, amount)
    \/ \E u \in Users, codes \in CodeSets, qr_ok \in BOOLEAN : SeatSelectWallet(u, codes, qr_ok)

SpecWallet == InitWatching({"wallet_pay"}) /\ [][NextWallet]_vars

\* ------------------------------- wallet, wallet-paid booking and resale
\* the instants the clock visits: the start and the instants around the
\* close of the resale window
ResaleInstants == {0} \cup ((ResaleExpiry - Slack) .. (ResaleExpiry + Slack))
TickResale == TickTo(ResaleInstants)

NextMoney ==
    \/ TickResale
    \/ \E u \in Users, amount \in TopupAmounts, gw_ok \in BOOLEAN :
            CreateWalletTopupOrder(u, amount, gw_ok)
    \/ \E u \in Users, i \in WpayIds, payload \in Payloads : VerifyWalletTopup(u, i, payload)
    \/ \E u \in Users, i \in WpayIds, payload \in Payloads : WalletVerifyPayment(u, i, payload)
    \/ \E u \in Users, amount \in PayAmounts : WalletPay(u, amount)
    \/ \E u \in Users, codes \in CodeSets, qr_ok \in BOOLEAN : SeatSelectWallet(u, codes, qr_ok)
    \/ \E u \in Users, t \in TicketIds : ListTicketForResale(u, t)
    \/ \E u \in Users, r \in ResaleIds, gw_ok \in BOOLEAN : CreateResaleBuyOrder(u, r, gw_ok)
    \/ \E u \in Users, r \in ResaleIds, payload \in Payloads : VerifyResaleBuyPayment(u, r, payload)
    \/ \E u \in Users, r \in ResaleIds, payload \in Payloads, qr_ok \in BOOLEAN :
            VerifyResalePayment(u, r, payload, qr_ok)
    \/ \E u \in Users, r \in ResaleIds : CancelResaleListing(u, r)

SpecMoney == InitWatching({"verify_resale_buy_payment"}) /\ [][NextMoney]_vars

\* ------------------------------------- the resale market on its own
\* tickets are booked through the gateway, listed through the service or the
\* page, bought through the service
NextResale ==
    \/ TickResale
    \/ \E u \in Users, codes \in CodeSets : SeatSelectRazorpay(u, codes, TRUE)
    \/ \E u \in Users, t \in TicketIds, payload \in Payloads : VerifyBookingPayment(u, t, payload)
    \/ \E u \in Users, t \in TicketIds : ListTicketForResale(u, t)
    \/ \E u \in Users, t \in TicketIds : ListTicketForResalePage(u, t)
    \/ \E u \in Users, r \in ResaleIds, gw_ok \in BOOLEAN : CreateResaleBuyOrder(u, r, gw_ok)
    \/ \E u \in Users, r \in ResaleIds, payload \in Payloads : VerifyResaleBuyPayment(u, r, payload)
    \/ \E u \in Users, r \in ResaleIds : CancelResaleListing(u, r)

SpecResale == InitWatching({"list_ticket_for_resale"}) /\ [][NextResale]_vars

\* ----------------------------- buying on the resale market, answers recorded
\* tickets are booked through the gateway and listed through the service;
\* buy orders and their verifications come through the service and the pages
NextResaleBuy ==
    \/ TickResale
    \/ \E u \in Users, codes \in CodeSets : SeatSelectRazorpay(u, codes, TRUE)
    \/ \E t \in DOMAIN tickets, payload \in Payloads :
            VerifyBookingPayment(tickets[t].user, t, payload)
    \/ \E u \in Users, t \in TicketIds : ListTicketForResale(u, t)
    \/ \E u \in Users, r \in ResaleIds, gw_ok \in BOOLEAN : CreateResaleBuyOrder(u, r, gw_ok)
    \/ \E u \in Users, r \in ResaleIds, gw_ok \in BOOLEAN : BuyResaleTicket(u, r, gw_ok)
    \/ \E u \in Users, r \in ResaleIds, payload \in Payloads : VerifyResaleBuyPayment(u, r, payload)
    \/ \E u \in Users, r \in ResaleIds, payload \in Payloads, qr_ok \in BOOLEAN :
            VerifyResalePayment(u, r, payload, qr_ok)

SpecResaleBuy ==
    /\ InitWatching({"create_resale_buy_order", "buy_resale_ticket",
                     "verify_resale_buy_payment", "verify_resale_payment"})
    /\ [][NextResaleBuy]_vars

\* ------------------- paying for seats: by wallet or through the gateway
NextCheckout ==
    \/ TickBooking
    \/ \E u \in Users, amount \in TopupAmounts, gw_ok \in BOOLEAN :
            CreateWalletTopupOrder(u, amount, gw_ok)
    \/ \E u \in Users, i \in WpayIds, payload \in Payloads : VerifyWalletTopup(u, i, payload)
    \/ \E u \in Users, codes \in CodeSets, qr_ok \in BOOLEAN : SeatSelectWallet(u, codes, qr_ok)
    \/ \E u \in Users, codes \in CodeSets, gw_ok \in BOOLEAN : SeatSelectRazorpay(u, codes, gw_ok)
    \/ \E u \in Users, t \in TicketIds, gw_ok \in BOOLEAN : CreateBookingOrder(u, t, gw_ok)
    \/ \E u \in Users, t \in TicketIds, payload \in Payloads : VerifyBookingPayment(u, t, payload)
    \/ \E u \in Users, t \in TicketIds, payload \in Payloads, qr_ok \in BOOLEAN :
            VerifyPayment(u, t, payload, qr_ok)

SpecCheckout == InitWatching({}) /\ [][NextCheckout]_vars

\* ------------------------------------- seats paid from a funded wallet
\* users top up one or two seat prices, seats are locked through the service
\* and selected with the wallet method
NextWalletSeats ==
    \/ TickBooking
    \/ \E u \in Users, amount \in PayAmounts : CreateWalletTopupOrder(u, amount, TRUE)
    \/ \E u \in Users, i \in WpayIds, payload \in Payloads : VerifyWalletTopup(u, i, payload)
    \/ \E u \in Users, codes \in CodeSets : LockSeats(u, codes)
    \/ \E u \in Users, codes \in CodeSets, qr_ok \in BOOLEAN : SeatSelectWallet(u, codes, qr_ok)

SpecWalletSeats == InitWatching({"seat_select"}) /\ [][NextWalletSeats]_vars

\* ============================================ requests that overlap
\* A worker serves one request at a time, in steps: the request arrives, the
\* handler reads (and locks, where the code says FOR UPDATE) its rows, the
\* handler writes and commits.  conc is the set of workers whose request
\* overlapped this one in time.
SeatRequests == (SUBSET SeatCodes) \ {{}}
NoSnap == [none |-> TRUE]

Called(p, op, u, codes, t, payload, qr_ok) ==
    /\ ~InFlight(p)
    /\ req' = [q \in Procs |->
                IF q = p
                THEN [op |-> op, pc |-> "called", user |-> u, codes |-> codes, ticket |-> t,
                      payload |-> payload, qr_ok |-> qr_ok, snap |-> NoSnap, res |-> "none",
                      conc |-> {x \in Procs \ {p} : InFlight(x)}]
                ELSE IF InFlight(q) THEN [req[q] EXCEPT !.conc = @ \cup {p}]
                ELSE IF req[q].op # "idle" THEN [req[q] EXCEPT !.conc = @ \ {p}]
                ELSE req[q]]
    /\ UNCHANGED <<now, seats, tickets, nextTicket, pays, nextOrder, wallets, wpays,
                   resales, nextResale, rpays, rowlocks, effects, watch, last>>

\* the handler of worker p is at step pc of operation op
At(p, op, pc) == req[p].op = op /\ req[p].pc = pc

\* rows are read, and held FOR UPDATE once no other transaction holds them
Fetched(p, rows, snap) ==
    /\ ~HeldByOther(p, rows)
    /\ rowlocks' = [rowlocks EXCEPT ![p] = rows]
    /\ req' = [req EXCEPT ![p].pc = "fetched", ![p].snap = snap]
    /\ UNCHANGED <<now, seats, tickets, nextTicket, pays, nextOrder, wallets, wpays,
                   resales, nextResale, rpays, effects, watch, last>>

\* the transaction ends: its row locks are released, its answer goes out
Committed(p, res) ==
    /\ rowlocks' = [rowlocks EXCEPT ![p] = {}]
    /\ req' = [req EXCEPT ![p].pc = "done", ![p].snap = NoSnap, ![p].res = res]
    /\ UNCHANGED <<now, watch>>

NoPayload == [order |-> 0, sig_ok |-> FALSE]

\* ---- lock_seats and create_ticket_pending
LockSeatsCall(p, u, codes) == Called(p, "lock_seats", u, codes, 0, NoPayload, TRUE)
LockSeatsFetch(p) ==
    /\ At(p, "lock_seats", "called")
    /\ Fetched(p, lock_seats_rows(req[p].codes), release_expired_locks(seats, now))
LockSeatsCommit(p) ==
    /\ At(p, "lock_seats", "fetched")
    /\ lock_seats_apply(req[p].user, req[p].codes, now, req[p].snap)
    /\ Committed(p, lock_seats_result(req[p].user, req[p].codes, now, req[p].snap))

CreateTicketPendingCall(p, u, codes) ==
    Called(p, "create_ticket_pending", u, codes, 0, NoPayload, TRUE)
CreateTicketPendingFetch(p) ==
    /\ At(p, "create_ticket_pending", "called")
    /\ Fetched(p, lock_seats_rows(req[p].codes), release_expired_locks(seats, now))
CreateTicketPendingCommit(p) ==
    /\ At(p, "create_ticket_pending", "fetched")
    /\ create_ticket_pending_apply(req[p].user, req[p].codes, now, req[p].snap)
    /\ Committed(p, create_ticket_pending_result(req[p].user, req[p].codes, now, req[p].snap))

\* no request has arrived yet
Fresh == \A p \in Procs : req[p].op = "idle"

NextSeatRace ==
    \/ Fresh /\ \E codes \in SeatRequests : SeatSelectRazorpay("X", codes, TRUE)
    \/ Fresh /\ \E t \in TicketIds, payload \in Payloads : VerifyBookingPayment("X", t, payload)
    \/ \E p \in Procs, u \in Users, codes \in SeatRequests : LockSeatsCall(p, u, codes)
    \/ \E p \in Procs : LockSeatsFetch(p)
    \/ \E p \in Procs : LockSeatsCommit(p)
    \/ \E p \in Procs, u \in Users, codes \in SeatRequests : CreateTicketPendingCall(p, u, codes)
    \/ \E p \in Procs : CreateTicketPendingFetch(p)
    \/ \E p \in Procs : CreateTicketPendingCommit(p)

SpecSeatRace == InitWatching({}) /\ [][NextSeatRace]_vars

\* ---- verify_booking_payment (service) and verify_payment (page)
\* rows verify_booking_payment holds FOR UPDATE
verify_booking_payment_rows(t) == {TicketRow(t), PayRow(t)}

VerifyBookingPaymentCall(p, u, t, payload) ==
    Called(p, "verify_booking_payment", u, {}, t, payload, TRUE)
VerifyBookingPaymentFetch(p) ==
    /\ At(p, "verify_booking_payment", "called")
    /\ Fetched(p, verify_booking_payment_rows(req[p].ticket),
               [tk |-> Fetch(tickets, req[p].ticket), pay |-> Fetch(pays, req[p].ticket)])
VerifyBookingPaymentCommit(p) ==
    /\ At(p, "verify_booking_payment", "fetched")
    /\ verify_booking_payment_apply(req[p].ticket, req[p].user, req[p].payload,
                                    req[p].snap.tk, req[p].snap.pay)
    /\ Committed(p, verify_booking_payment_result(req[p].ticket, req[p].user, req[p].payload,
                                                  req[p].snap.tk, req[p].snap.pay))

\* the Seat rows of the fetched Ticket row tk
ticket_seat_rows(tk) == IF tk = NoRow THEN {} ELSE {SeatRow(c) : c \in tk.seats}

\* the page handler reads its rows with plain queries
VerifyPaymentCall(p, u, t, payload, qr_ok) ==
    Called(p, "verify_payment", u, {}, t, payload, qr_ok)
VerifyPaymentFetch(p) ==
    /\ At(p, "verify_payment", "called")
    /\ Fetched(p, {}, [tk |-> Fetch(tickets, req[p].ticket), pay |-> Fetch(pays, req[p].ticket)])
\* its writes wait for the row locks of others; when a row it read is gone by
\* then, save() fails and the request ends in a server error with nothing written
VerifyPaymentCommit(p) ==
    LET t == req[p].ticket
        res == verify_payment_result(t, req[p].user, req[p].payload, req[p].qr_ok,
                                     req[p].snap.tk, req[p].snap.pay)
    IN
    /\ At(p, "verify_payment", "fetched")
    /\ ~HeldByOther(p, verify_booking_payment_rows(t) \cup ticket_seat_rows(req[p].snap.tk))
    /\ IF res # "NotFound" /\ (t \notin DOMAIN tickets \/ t \notin DOMAIN pays)
       THEN /\ UNCHANGED <<seats, tickets, nextTicket, pays, nextOrder, wallets, wpays,
                           resales, nextResale, rpays, effects, last>>
            /\ Committed(p, "ServerError")
       ELSE /\ verify_payment_apply(t, req[p].user, req[p].payload, req[p].qr_ok,
                                    req[p].snap.tk, req[p].snap.pay)
            /\ Committed(p, res)

\* one user selects seats, then each worker serves one payment callback of
\* that user
NextVerifyRace ==
    \/ Fresh /\ \E codes \in SeatRequests : SeatSelectRazorpay("X", codes, TRUE)
    \/ \E p \in Procs, t \in DOMAIN tickets, payload \in Payloads :
            req[p].op = "idle" /\ VerifyBookingPaymentCall(p, "X", t, payload)
    \/ \E p \in Procs : VerifyBookingPaymentFetch(p)
    \/ \E p \in Procs : VerifyBookingPaymentCommit(p)
    \/ \E p \in Procs, t \in DOMAIN tickets, payload \in Payloads, qr_ok \in BOOLEAN :
            req[p].op = "idle" /\ VerifyPaymentCall(p, "X", t, payload, qr_ok)
    \/ \E p \in Procs : VerifyPaymentFetch(p)
    \/ \E p \in Procs : VerifyPaymentCommit(p)

SpecVerifyRace == InitWatching({}) /\ [][NextVerifyRace]_vars

\* a transaction that runs from its first read to its commit at one instant,
\* while no other transaction holds one of its rows FOR UPDATE
Amid(rows) ==
    /\ \A p \in Procs : rowlocks[p] \cap rows = {}
    /\ UNCHANGED <<now, req, rowlocks, watch>>

\* ---- seats taken while a payment is being confirmed
\* seat_select in steps: the purge (autocommit), the read of the caller's
\* Wallet (outside the atomic block) and the count() and exists() queries,
\* which lock no row; the loop that reads the rows FOR UPDATE; the writes and
\* the commit
SeatSelectCall(p, u, codes) == Called(p, "seat_select", u, codes, 0, NoPayload, TRUE)
\* the same request with pay_method=WALLET
SeatSelectWalletCall(p, u, codes) ==
    Called(p, "seat_select_wallet", u, codes, 0, NoPayload, TRUE)
SeatSelectCheck(p) ==
    /\ req[p].op \in {"seat_select", "seat_select_wallet"} /\ req[p].pc = "called"
    /\ ~HeldByOther(p, {SeatRow(c) : c \in SeatCodes})
    /\ seats' = release_expired_locks(seats, now)
    /\ req' = [req EXCEPT ![p].pc = "checked",
                          ![p].snap = [booked |-> seats', wallet |-> wallets[req[p].user]]]
    /\ UNCHANGED <<now, tickets, nextTicket, pays, nextOrder, wallets, wpays,
                   resales, nextResale, rpays, rowlocks, effects, watch, last>>
SeatSelectFetch(p) ==
    /\ req[p].op \in {"seat_select", "seat_select_wallet"} /\ req[p].pc = "checked"
    /\ Fetched(p, {SeatRow(c) : c \in req[p].codes \cap SeatCodes},
               [booked |-> req[p].snap.booked, locked |-> seats,
                wallet |-> req[p].snap.wallet])
SeatSelectCommit(p) ==
    LET res == seat_select_answer(req[p].user, req[p].codes,
                                  IF req[p].op = "seat_select_wallet"
                                  THEN "WALLET" ELSE "RAZORPAY",
                                  TRUE, TRUE, now,
                                  req[p].snap.booked, req[p].snap.locked, req[p].snap.wallet)
    IN
    /\ req[p].op \in {"seat_select", "seat_select_wallet"} /\ req[p].pc = "fetched"
    /\ seat_select_effect(res, req[p].user, req[p].codes, now, req[p].snap.wallet)
    /\ Committed(p, res)

\* verify_booking_payment from its first read to its commit at one instant:
\* its updates wait for the row locks of others
VerifyBookingPaymentAmid(u, t, payload) ==
    /\ Amid(verify_booking_payment_rows(t) \cup ticket_seat_rows(Fetch(tickets, t)))
    /\ verify_booking_payment_apply(t, u, payload, Fetch(tickets, t), Fetch(pays, t))

\* X selects seats; then X's payment is confirmed while Y asks for seats
NextBookRace ==
    \/ Fresh /\ \E codes \in SeatRequests : SeatSelectRazorpay("X", codes, TRUE)
    \/ \E t \in DOMAIN tickets, payload \in Payloads : VerifyBookingPaymentAmid("X", t, payload)
    \/ \E p \in Procs, t \in DOMAIN tickets, payload \in Payloads :
            req[p].op = "idle" /\ VerifyPaymentCall(p, "X", t, payload, TRUE)
    \/ \E p \in Procs : VerifyPaymentFetch(p)
    \/ \E p \in Procs : VerifyPaymentCommit(p)
    \/ \E p \in Procs, codes \in SeatRequests :
            req[p].op = "idle" /\ LockSeatsCall(p, "Y", codes)
    \/ \E p \in Procs : LockSeatsFetch(p)
    \/ \E p \in Procs : LockSeatsCommit(p)
    \/ \E p \in Procs, codes \in SeatRequests :
            req[p].op = "idle" /\ SeatSelectCall(p, "Y", codes)
    \/ \E p \in Procs : SeatSelectCheck(p)
    \/ \E p \in Procs : SeatSelectFetch(p)
    \/ \E p \in Procs : SeatSelectCommit(p)

SpecBookRace == InitWatching({}) /\ [][NextBookRace]_vars

\* ---- a resale transfer while a payment callback of the seller is being served
\* rows verify_resale_buy_payment holds FOR UPDATE
verify_resale_buy_payment_rows(r) == {ResaleRow(r), RpayRow(r)}

VerifyResaleBuyPaymentAmid(u, r, payload) ==
    /\ Amid(verify_resale_buy_payment_rows(r))
    /\ verify_resale_buy_payment_apply(u, r, payload, now, FetchUnsold(r), Fetch(rpays, r))

\* X books and pays a ticket and lists it, Y orders it; then Y's resale
\* verification and one more payment callback of X are served
NextResaleRace ==
    \/ Fresh /\ \E codes \in SeatRequests : SeatSelectRazorpay("X", codes, TRUE)
    \/ Fresh /\ \E t \in TicketIds, payload \in Payloads : VerifyBookingPayment("X", t, payload)
    \/ Fresh /\ \E t \in TicketIds : ListTicketForResale("X", t)
    \/ Fresh /\ \E r \in ResaleIds : CreateResaleBuyOrder("Y", r, TRUE)
    \/ \E r \in ResaleIds, payload \in Payloads : VerifyResaleBuyPaymentAmid("Y", r, payload)
    \/ \E p \in Procs, t \in DOMAIN tickets, payload \in Payloads, qr_ok \in BOOLEAN :
            req[p].op = "idle" /\ VerifyPaymentCall(p, "X", t, payload, qr_ok)
    \/ \E p \in Procs : VerifyPaymentFetch(p)
    \/ \E p \in Procs : VerifyPaymentCommit(p)

SpecResaleRace == InitWatching({}) /\ [][NextResaleRace]_vars

\* ---- two listing requests for one ticket
NewListing(u, t, tk) ==
    [ticket |-> t, seller |-> u, buyer |-> NoUser,
     resale_price |-> tk.total_price, is_sold |-> FALSE]

\* TicketResale.objects.create under the unique index of the OneToOneField
\* on ticket: a second row for the ticket raises IntegrityError and nothing
\* is written
InsertListing(p, res) ==
    LET u == req[p].user
        t == req[p].ticket
        out == IF res = "ok" /\ Listed(t) THEN "IntegrityError" ELSE res
    IN
    /\ IF out = "ok"
       THEN /\ nextResale <= MaxListings
            /\ resales' = With(resales, nextResale, NewListing(u, t, req[p].snap.tk))
            /\ nextResale' = nextResale + 1
       ELSE UNCHANGED <<resales, nextResale>>
    /\ UNCHANGED <<seats, tickets, nextTicket, pays, nextOrder, wallets, wpays, rpays, effects>>
    /\ Said(req[p].op, out)
    /\ Committed(p, out)

\* the service reads the Ticket row FOR UPDATE, tests it and looks for a listing
ListTicketForResaleCall(p, u, t) ==
    Called(p, "list_ticket_for_resale", u, {}, t, NoPayload, TRUE)
ListTicketForResaleFetch(p) ==
    /\ At(p, "list_ticket_for_resale", "called")
    /\ Fetched(p, {TicketRow(req[p].ticket)},
               [tk |-> Fetch(tickets, req[p].ticket),
                res |-> list_ticket_for_resale_result(req[p].user, req[p].ticket, now,
                                                      Fetch(tickets, req[p].ticket))])
ListTicketForResaleCommit(p) ==
    /\ At(p, "list_ticket_for_resale", "fetched")
    /\ InsertListing(p, req[p].snap.res)

\* the page handler runs expire_resales, reads the Ticket row with a plain
\* query, tests it and looks for a listing; it holds no row and is not atomic
ListTicketForResalePageCall(p, u, t) ==
    Called(p, "views_list_ticket_for_resale", u, {}, t, NoPayload, TRUE)
ListTicketForResalePageFetch(p) ==
    LET gone == expire_resales(resales, tickets, now)
        kept == Without(resales, gone)
        tk == Fetch(tickets, req[p].ticket)
    IN
    /\ At(p, "views_list_ticket_for_resale", "called")
    /\ ~HeldByOther(p, {ResaleRow(r) : r \in gone})
    /\ resales' = kept
    /\ rpays' = Without(rpays, gone)
    /\ req' = [req EXCEPT ![p].pc = "fetched",
                          ![p].snap = [tk |-> tk,
                                       res |-> views_list_ticket_for_resale_result(
                                                   req[p].user, req[p].ticket, now, tk, kept)]]
    /\ UNCHANGED <<now, seats, tickets, nextTicket, pays, nextOrder, wallets, wpays,
                   nextResale, rowlocks, effects, watch, last>>
\* its insert waits while another transaction holds the Ticket row the new
\* row refers to
ListTicketForResalePageCommit(p) ==
    /\ At(p, "views_list_ticket_for_resale", "fetched")
    /\ ~HeldByOther(p, {TicketRow(req[p].ticket)})
    /\ InsertListing(p, req[p].snap.res)

\* X books and pays tickets; then each worker serves one listing request of X
NextListRace ==
    \/ TickResale
    \/ Fresh /\ \E codes \in SeatRequests : SeatSelectRazorpay("X", codes, TRUE)
    \/ Fresh /\ \E t \in DOMAIN tickets, payload \in Payloads :
            VerifyBookingPayment("X", t, payload)
    \/ \E p \in Procs, t \in DOMAIN tickets :
            req[p].op = "idle" /\ ListTicketForResaleCall(p, "X", t)
    \/ \E p \in Procs : ListTicketForResaleFetch(p)
    \/ \E p \in Procs : ListTicketForResaleCommit(p)
    \/ \E p \in Procs, t \in DOMAIN tickets :
            req[p].op = "idle" /\ ListTicketForResalePageCall(p, "X", t)
    \/ \E p \in Procs : ListTicketForResalePageFetch(p)
    \/ \E p \in Procs : ListTicketForResalePageCommit(p)

SpecListRace == InitWatching({}) /\ [][NextListRace]_vars

\* ---- two wallet-paid seat selections of one user
\* X tops the wallet up; then two of X's seat_select requests with
\* pay_method=WALLET are served by the two workers
NextWalletRace ==
    \/ Fresh /\ \E amount \in PayAmounts : CreateWalletTopupOrder("X", amount, TRUE)
    \/ Fresh /\ \E i \in WpayIds, payload \in Payloads : VerifyWalletTopup("X", i, payload)
    \/ \E p \in Procs, codes \in SeatRequests :
            req[p].op = "idle" /\ SeatSelectWalletCall(p, "X", codes)
    \/ \E p \in Procs : SeatSelectCheck(p)
    \/ \E p \in Procs : SeatSelectFetch(p)
    \/ \E p \in Procs : SeatSelectCommit(p)

SpecWalletRace == InitWatching({}) /\ [][NextWalletRace]_vars

\* ---- two buyers confirm their payment for one listing
\* the users who buy on the resale market; the resale handlers write the
\* buyer's name to the Ticket and the listing and touch no row of his own
Buyers == {"Y", "Z"}

\* views.py verify_resale_payment in steps: the plain reads of the listing
\* and its ResalePayment (the request's id field carries the listing id),
\* then the writes, which wait for the row locks of others, and the commit
VerifyResalePaymentCall(p, u, r, payload) ==
    Called(p, "verify_resale_payment", u, {}, r, payload, TRUE)
VerifyResalePaymentFetch(p) ==
    /\ At(p, "verify_resale_payment", "called")
    /\ Fetched(p, {}, [rs |-> FetchUnsold(req[p].ticket), rp |-> Fetch(rpays, req[p].ticket)])
VerifyResalePaymentCommit(p) ==
    /\ At(p, "verify_resale_payment", "fetched")
    /\ ~HeldByOther(p, verify_resale_buy_payment_rows(req[p].ticket))
    /\ verify_resale_payment_apply(req[p].user, req[p].ticket, req[p].payload, req[p].qr_ok,
                                   now, req[p].snap.rs, req[p].snap.rp)
    /\ Committed(p, verify_resale_payment_result(req[p].user, req[p].ticket, req[p].payload,
                                                 req[p].qr_ok, now,
                                                 req[p].snap.rs, req[p].snap.rp))

\* X books and pays a ticket and lists it, Y orders it; then the
\* verifications of two different buyers are served, through the service
\* (one transaction under its row locks) or through the page
NextBuyRace ==
    \/ Fresh /\ \E codes \in SeatRequests : SeatSelectRazorpay("X", codes, TRUE)
    \/ Fresh /\ \E t \in TicketIds, payload \in Payloads : VerifyBookingPayment("X", t, payload)
    \/ Fresh /\ \E t \in TicketIds : ListTicketForResale("X", t)
    \/ Fresh /\ \E r \in ResaleIds : CreateResaleBuyOrder("Y", r, TRUE)
    \/ \E u \in Buyers, r \in DOMAIN rpays, payload \in Payloads :
            /\ \A q \in Procs : req[q].op # "idle" => req[q].user # u
            /\ VerifyResaleBuyPaymentAmid(u, r, payload)
    \/ \E p \in Procs, u \in Buyers, r \in DOMAIN rpays, payload \in Payloads :
            /\ req[p].op = "idle"
            /\ \A q \in Procs \ {p} : req[q].op # "idle" => req[q].user # u
            /\ VerifyResalePaymentCall(p, u, r, payload)
    \/ \E p \in Procs : VerifyResalePaymentFetch(p)
    \/ \E p \in Procs : VerifyResalePaymentCommit(p)

SpecBuyRace == InitWatching({}) /\ [][NextBuyRace]_vars

\* ================================================================= claims
\* two finished requests that overlapped in time
Finished(p) == req[p].op # "idle" /\ req[p].pc = "done"
Raced(p, q) == p # q /\ Finished(p) /\ Finished(q) /\ q \in req[p].conc
SeatOps == {"lock_seats", "create_ticket_pending"}
SeatRace(p, q) ==
    /\ Raced(p, q)
    /\ req[p].op \in SeatOps /\ req[q].op \in SeatOps
    /\ req[p].user # req[q].user
    /\ req[p].codes \cap req[q].codes # {}

ActiveTicket(t) == tickets[t].status \in {"PENDING", "BOOKED"}

\* C2: no seat belongs to two distinct tickets that are both PENDING or BOOKED
C2_NoSeatInTwoActiveTickets ==
    \A t1, t2 \in DOMAIN tickets :
        (t1 # t2 /\ ActiveTicket(t1) /\ ActiveTicket(t2))
            => tickets[t1].seats \cap tickets[t2].seats = {}

PaidTicket(t) == t \in DOMAIN pays /\ pays[t].status = "PAID"

\* C3: a verify_booking_payment call on a ticket whose Payment is already PAID
\* answers with the existing PAID record and changes no row, whatever the payload
C3_ReplayIsIdempotent ==
    [][\A t \in TicketIds, payload \in Payloads :
          (PaidTicket(t) /\ VerifyBookingPayment(tickets[t].user, t, payload))
              => (last'.res = "AlreadyPaid" /\ db' = db)]_vars

\* C3 witness: a PAID payment exists and a repeated verification was answered
C3_ReplayHappened ==
    /\ last = [op |-> "verify_booking_payment", res |-> "AlreadyPaid"]
    /\ \E t \in DOMAIN pays : PaidTicket(t) /\ Count(effects.confirm, t) = 1

\* C4: however often a top-up order is verified with a valid payload, through
\* the service or the page handler, the wallet is credited its amount once
C4_TopupCreditedOnce ==
    \A i \in DOMAIN wpays : Count(effects.credit, i) <= 1

VerifyOps == {"verify_booking_payment", "verify_payment"}

\* C5: two overlapping verifications of one Ticket's payment with the same
\* valid payload apply the booking confirmation once: one call confirms, the
\* other takes the already-PAID replay path
C5_ConfirmedOnce ==
    \A p, q \in Procs :
        (/\ Raced(p, q)
         /\ req[p].op \in VerifyOps /\ req[q].op \in VerifyOps
         /\ req[p].ticket = req[q].ticket /\ req[p].payload = req[q].payload
         /\ req[p].user = req[q].user
         /\ req[p].qr_ok /\ req[q].qr_ok
         /\ req[p].payload.sig_ok
         /\ PaidTicket(req[p].ticket)
         /\ pays[req[p].ticket].razorpay_order_id = req[p].payload.order
         /\ tickets[req[p].ticket].user = req[p].user)
            => /\ Count(effects.confirm, req[p].ticket) = 1
               /\ {req[p].res, req[q].res} = {"PaidAndBooked", "AlreadyPaid"}

\* C6: a booking Payment is PAID only if its Ticket is BOOKED and every seat
\* of that Ticket is booked
C6_PaidImpliesBooked ==
    \A t \in DOMAIN pays :
        pays[t].status = "PAID"
            => /\ t \in DOMAIN tickets
               /\ tickets[t].status = "BOOKED"
               /\ \A c \in tickets[t].seats : seats[c].is_booked

\* C6 witness: one ticket paid from the wallet and one paid through the gateway
C6_PaidBothWays ==
    \E t1, t2 \in DOMAIN pays :
        /\ pays[t1].status = "PAID" /\ pays[t1].razorpay_order_id = WalletOrder(t1)
        /\ pays[t2].status = "PAID" /\ pays[t2].razorpay_order_id > 0
        /\ Count(effects.confirm, t1) >= 1 /\ Count(effects.confirm, t2) >= 1

\* C7: every wallet balance is >= 0
C7_BalanceNeverNegative ==
    \A u \in Users : wallets[u] >= 0

\* C7 witness: a wallet was debited down to zero after a resale paid out
C7_DebitedToZero ==
    \E u \in Users :
        /\ wallets[u] = 0
        /\ Count(effects.debit, u) >= 1
        /\ \E r \in DOMAIN resales : resales[r].seller = u /\ Count(effects.payout, r) >= 1

\* C8: wallet_pay of more than the balance fails with the insufficient-funds
\* error and leaves the balance as it was; wallet_pay of at most the balance
\* takes exactly the amount off the payer's balance
C8_DebitChecksBalance ==
    [][\A u \in Users, amount \in PayAmounts :
          WalletPay(u, amount)
              => IF amount > wallets[u]
                 THEN last'.res = "InsufficientFunds" /\ wallets' = wallets
                 ELSE last'.res = "ok" /\ wallets' = [wallets EXCEPT ![u] = @ - amount]]_vars

\* C8 witness: a debit was refused to a wallet that holds money
C8_DebitRefused ==
    /\ last = [op |-> "wallet_pay", res |-> "InsufficientFunds"]
    /\ \E u \in Users : wallets[u] > 0 /\ wallets[u] < 2 * PricePerSeat

\* the parts of a transfer of listing r
TransferDone(r) ==
    LET rs == resales[r] IN
    /\ rs.is_sold /\ rs.buyer # NoUser
    /\ r \in DOMAIN rpays /\ rpays[r].status = "PAID"
    /\ tickets[rs.ticket].user = rs.buyer /\ tickets[rs.ticket].is_transferred
    /\ Count(effects.payout, r) = 1
TransferNotDone(r) ==
    LET rs == resales[r] IN
    /\ ~rs.is_sold /\ rs.buyer = NoUser
    /\ r \in DOMAIN rpays => rpays[r].status # "PAID"
    /\ tickets[rs.ticket].user = rs.seller /\ ~tickets[rs.ticket].is_transferred
    /\ Count(effects.payout, r) = 0

\* C9: for every listing the transfer is applied as a whole or not at all:
\* sold with a buyer, ResalePayment PAID, Ticket owned by the buyer and
\* marked transferred, seller credited; or none of these
C9_TransferAllOrNothing ==
    \A r \in DOMAIN resales : TransferDone(r) \/ TransferNotDone(r)

\* C10: verify_resale_buy_payment called again by the buyer with a valid
\* payload after the transfer answers with the PAID ResalePayment, not an error
C10_ReplayReturnsPaid ==
    [][\A r \in ResaleIds, payload \in Payloads :
          (/\ r \in DOMAIN resales
           /\ TransferDone(r)
           /\ payload.sig_ok
           /\ VerifyResaleBuyPayment(resales[r].buyer, r, payload))
              => last'.res \in {"AlreadyPaid", "Transferred"}]_vars

\* C11: once a Ticket has been transferred it keeps its new owner and
\* is_transferred stays true for as long as the Ticket exists, so its owner
\* changes at most once and no second listing can be made for it
C11_TransferredStays ==
    [][\A t \in DOMAIN tickets :
          (tickets[t].is_transferred /\ t \in DOMAIN tickets')
              => (tickets'[t].is_transferred /\ tickets'[t].user = tickets[t].user)]_vars

\* a BOOKED, not transferred, not listed ticket t of user u
Listable(u, t) ==
    /\ t \in DOMAIN tickets
    /\ tickets[t].user = u /\ tickets[t].status = "BOOKED" /\ ~tickets[t].is_transferred
    /\ ~Listed(t)

\* C12: for a BOOKED, not transferred, not listed ticket and its owner,
\* listing for resale (service or page) succeeds when now is before show
\* start minus 3 hours, and fails with ResaleWindowClosed, creating no
\* listing, when now is at or after that instant
C12_ResaleWindowCutoff ==
    [][\A u \in Users, t \in TicketIds :
          (Listable(u, t) /\ (ListTicketForResale(u, t) \/ ListTicketForResalePage(u, t)))
              => IF now < ShowTime - RESALE_CLOSE_HOURS * 60
                 THEN last'.res = "ok" /\ ListedIn(resales', t)
                 ELSE last'.res = "ResaleWindowClosed" /\ ~ListedIn(resales', t)]_vars

\* C12 witness: at the cutoff instant itself the owner of the only ticket,
\* BOOKED and never listed, was refused
C12_RefusedAtCutoff ==
    /\ last = [op |-> "list_ticket_for_resale", res |-> "ResaleWindowClosed"]
    /\ now = ShowTime - RESALE_CLOSE_HOURS * 60
    /\ nextResale = 1
    /\ \E t \in DOMAIN tickets : \E u \in Users : Listable(u, t)

\* seat c carries a lock of user v that is more than LOCK_MINS minutes old
StaleLock(c, v) ==
    /\ ~seats[c].is_booked
    /\ seats[c].locked_by = v
    /\ seats[c].locked_at # NoTime
    /\ now - seats[c].locked_at > LOCK_MINS

\* C13: a lock more than 5 minutes old counts as expired for the very next
\* call: lock_seats by another user on that seat succeeds and takes the
\* seat, create_ticket_pending by the former holder fails and creates no Ticket
C13_StaleLockIsExpired ==
    [][\A c \in SeatCodes, v \in Users :
          StaleLock(c, v)
              => /\ \A y \in Users \ {v} :
                        LockSeats(y, {c})
                            => (last'.res = "ok" /\ seats'[c].locked_by = y
                                    /\ seats'[c].locked_at = now)
                 /\ CreateTicketPending(v, {c})
                        => (last'.res \in {"LockNotHeld", "LockExpired"}
                                /\ tickets' = tickets)]_vars

\* C13 witness: Y took a seat named in a PENDING ticket of X whose lock had
\* run out
C13_StaleLockTaken ==
    /\ last = [op |-> "lock_seats", res |-> "ok"]
    /\ now > LOCK_MINS
    /\ \E c \in SeatCodes, t \in DOMAIN tickets :
            /\ seats[c].locked_by = "Y" /\ seats[c].locked_at = now
            /\ tickets[t].user = "X" /\ c \in tickets[t].seats
            /\ tickets[t].status = "PENDING"

\* the step is a call of handler op, whose answer is recorded
Answered(op) == op \in watch /\ last'.op = op

\* seat c carries a lock of user x that is less than LOCK_MINS minutes old
YoungLock(c, x) ==
    /\ seats[c].locked_by = x
    /\ seats[c].locked_at # NoTime
    /\ now - seats[c].locked_at < LOCK_MINS

\* C14: while a seat is locked by X with a lock younger than 5 minutes, a
\* lock-acquiring call of another user that names it (lock_seats of either
\* service module, seat_select) among known, unbooked seats is rejected
\* with the locked-by-another error and leaves the seat's lock as it was
C14_YoungLockKeepsOthersOut ==
    [][\A c \in SeatCodes, x \in Users :
          YoungLock(c, x)
              => \A y \in Users \ {x}, codes \in SUBSET SeatCodes :
                    (/\ c \in codes
                     /\ \A d \in codes : ~seats[d].is_booked
                     /\ \/ Answered("lock_seats") /\ LockSeats(y, codes)
                        \/ Answered("seat_lock_service") /\ SeatLockService(y, codes)
                        \/ Answered("seat_select") /\ SeatSelectRazorpay(y, codes, TRUE))
                        => (last'.res = "SeatLockedByOther" /\ seats'[c] = seats[c])]_vars

\* C14 witness: X locked a seat at minute 5 and a minute later the page
\* refused another user
C14_OtherRefused ==
    /\ last = [op |-> "seat_select", res |-> "SeatLockedByOther"]
    /\ now = LOCK_MINS + 1
    /\ \E c \in SeatCodes : YoungLock(c, "X") /\ seats[c].locked_at = LOCK_MINS

\* C15: once a seat is booked, every lock-acquiring call that names it among
\* known seats, by any user, is rejected with SeatUnavailable and sets no
\* lock on any requested seat
C15_BookedSeatRefusesLocks ==
    [][\A c \in SeatCodes :
          seats[c].is_booked
              => \A y \in Users, codes \in SUBSET SeatCodes :
                    (/\ c \in codes
                     /\ \/ Answered("lock_seats") /\ LockSeats(y, codes)
                        \/ Answered("seat_lock_service") /\ SeatLockService(y, codes)
                        \/ Answered("seat_select") /\ SeatSelectRazorpay(y, codes, TRUE))
                        => /\ last'.res = "SeatUnavailable"
                           /\ \A d \in codes : seats'[d] \in {seats[d], Unlocked(seats[d])}]_vars

\* C15 witness: a call that named a booked seat was refused while the other
\* seat is free
C15_BookedSeatRefused ==
    /\ last = [op |-> "lock_seats", res |-> "SeatUnavailable"]
    /\ \E c, d \in SeatCodes : seats[c].is_booked /\ seats[d] = FreeSeat

\* C16: every booked seat has no lock holder and no lock time
C16_BookedSeatHasNoLock ==
    \A c \in SeatCodes :
        seats[c].is_booked => (seats[c].locked_by = NoUser /\ seats[c].locked_at = NoTime)

\* seat c is locked by user u with a lock that is not older than LOCK_MINS
HeldBy(c, u) ==
    /\ seats[c].locked_by = u
    /\ seats[c].locked_at # NoTime
    /\ now - seats[c].locked_at <= LOCK_MINS

\* C17: create_ticket_pending succeeds only if every named seat is locked by
\* the caller with an unexpired lock; when a named seat is unlocked, locked
\* by another user or held with a lock older than 5 minutes, it fails with
\* LockNotHeld or LockExpired and creates no Ticket
C17_TicketOnlyFromHeldSeats ==
    [][\A u \in Users, codes \in CodeSets :
          (Answered("create_ticket_pending") /\ CreateTicketPending(u, codes))
              => /\ last'.res = "ok"
                    => (codes # {} /\ codes \subseteq SeatCodes
                            /\ \A c \in codes : HeldBy(c, u))
                 /\ (codes # {} /\ codes \subseteq SeatCodes
                        /\ \E c \in codes : ~HeldBy(c, u))
                    => (last'.res \in {"LockNotHeld", "LockExpired"}
                            /\ tickets' = tickets /\ nextTicket' = nextTicket)]_vars

\* C17 witness: every seat carries a lock of X that ran out, no ticket
\* exists, and a create_ticket_pending call was refused
C17_StaleHolderRefused ==
    /\ last = [op |-> "create_ticket_pending", res |-> "LockNotHeld"]
    /\ tickets = Empty /\ nextTicket = 1
    /\ \A c \in SeatCodes : StaleLock(c, "X")

\* C18: when the show starts less than 30 minutes from now, lock_seats and
\* seat_select on known seats answer BookingClosed, and create_ticket_pending
\* is refused and creates no Ticket, also for seats locked before the cutoff
C18_ClosedForLockAndReserve ==
    [][\A u \in Users, codes \in SeatRequests :
          ShowTime - now < BOOKING_CLOSE_MINS
              => /\ (Answered("lock_seats") /\ LockSeats(u, codes))
                        => last'.res = "BookingClosed"
                 /\ (Answered("seat_select") /\ SeatSelectRazorpay(u, codes, TRUE))
                        => last'.res = "BookingClosed"
                 /\ (Answered("create_ticket_pending") /\ CreateTicketPending(u, codes))
                        => (last'.res # "ok" /\ tickets' = tickets)]_vars

\* C19: a Ticket that is BOOKED or CANCELLED stays a Ticket with that status
\* through every operation, repeated and failed payment verifications included
C19_TerminalTicketStatus ==
    [][\A t \in DOMAIN tickets :
          tickets[t].status \in {"BOOKED", "CANCELLED"}
              => (t \in DOMAIN tickets' /\ tickets'[t].status = tickets[t].status)]_vars

\* C20: the status of a payment order (booking Payment, WalletPayment,
\* ResalePayment) that is PAID or FAILED never becomes another status
C20_PaidAndFailedAreTerminal ==
    [][/\ \A t \in DOMAIN pays \cap DOMAIN pays' :
            pays[t].status \in {"PAID", "FAILED"} => pays'[t].status = pays[t].status
       /\ \A i \in DOMAIN wpays \cap DOMAIN wpays' :
            wpays[i].status \in {"PAID", "FAILED"} => wpays'[i].status = wpays[i].status
       /\ \A r \in DOMAIN rpays \cap DOMAIN rpays' :
            rpays[r].status \in {"PAID", "FAILED"} => rpays'[r].status = rpays[r].status]_vars

\* C21: for each kind of payment order not yet PAID (booking Payment,
\* WalletPayment, ResalePayment), a service verification by its user whose
\* payload names another order reference than the stored one answers
\* OrderMismatch and changes no ticket, seat, wallet or listing, whether or
\* not the signature checks out
C21_MismatchedOrderRejected ==
    [][/\ \A t \in DOMAIN tickets \cap DOMAIN pays, payload \in Payloads :
            (/\ pays[t].status # "PAID"
             /\ pays[t].razorpay_order_id # payload.order
             /\ VerifyBookingPayment(tickets[t].user, t, payload))
                => /\ verify_booking_payment_result(t, tickets[t].user, payload,
                                                    tickets[t], pays[t]) = "OrderMismatch"
                   /\ UNCHANGED <<seats, tickets, wallets, resales, effects>>
       /\ \A i \in DOMAIN wpays, payload \in Payloads :
            (/\ wpays[i].status # "PAID"
             /\ wpays[i].razorpay_order_id # payload.order
             /\ VerifyWalletTopup(wpays[i].user, i, payload))
                => /\ verify_wallet_topup_result(i, wpays[i].user, payload, wpays[i])
                        = "OrderMismatch"
                   /\ UNCHANGED <<seats, tickets, wallets, resales, effects>>
       /\ \A r \in DOMAIN resales \cap DOMAIN rpays, u \in Users, payload \in Payloads :
            (/\ ~resales[r].is_sold /\ resales[r].seller # u
             /\ ~resale_expired(now)
             /\ rpays[r].razorpay_order_id # payload.order
             /\ VerifyResaleBuyPayment(u, r, payload))
                => /\ verify_resale_buy_payment_result(u, r, payload, now, resales[r], rpays[r])
                        = "OrderMismatch"
                   /\ UNCHANGED <<seats, tickets, wallets, resales, effects>>]_vars

\* C22: after a service verification has answered OrderMismatch or
\* SignatureInvalid, the stored payment order of that entity (booking
\* Payment, WalletPayment, ResalePayment) has status FAILED in the
\* committed state, so a retry starts from FAILED and not from CREATED
C22_FailedVerificationMarksFailed ==
    [][/\ \A t \in DOMAIN tickets \cap DOMAIN pays, payload \in Payloads :
            (/\ verify_booking_payment_result(t, tickets[t].user, payload, tickets[t], pays[t])
                    \in {"OrderMismatch", "SignatureInvalid"}
             /\ VerifyBookingPayment(tickets[t].user, t, payload))
                => (t \in DOMAIN pays' /\ pays'[t].status = "FAILED")
       /\ \A i \in DOMAIN wpays, payload \in Payloads :
            (/\ verify_wallet_topup_result(i, wpays[i].user, payload, wpays[i])
                    \in {"OrderMismatch", "SignatureInvalid"}
             /\ VerifyWalletTopup(wpays[i].user, i, payload))
                => (i \in DOMAIN wpays' /\ wpays'[i].status = "FAILED")
       /\ \A r \in DOMAIN resales \cap DOMAIN rpays, u \in Users, payload \in Payloads :
            (/\ verify_resale_buy_payment_result(u, r, payload, now, FetchUnsold(r), rpays[r])
                    \in {"OrderMismatch", "SignatureInvalid"}
             /\ VerifyResaleBuyPayment(u, r, payload))
                => (r \in DOMAIN rpays' /\ rpays'[r].status = "FAILED")]_vars

\* the ticket t is gone or no longer PENDING, and none of the seats it named
\* is locked by user u, after the step
HoldRolledBack(t, u, cs) ==
    /\ t \in DOMAIN tickets' => tickets'[t].status # "PENDING"
    /\ \A c \in cs : seats'[c].locked_by # u

\* C23: after a failed verification of a PENDING Ticket's payment (service:
\* OrderMismatch or SignatureInvalid; page: the failure branch) the Ticket is
\* deleted or no longer PENDING and none of its seats is locked by its owner
C23_FailedVerificationRollsBack ==
    [][\A t \in DOMAIN tickets \cap DOMAIN pays, payload \in Payloads :
          tickets[t].status = "PENDING"
              => /\ (/\ verify_booking_payment_result(t, tickets[t].user, payload,
                                                      tickets[t], pays[t])
                            \in {"OrderMismatch", "SignatureInvalid"}
                     /\ VerifyBookingPayment(tickets[t].user, t, payload))
                        => HoldRolledBack(t, tickets[t].user, tickets[t].seats)
                 /\ (/\ ~payload.sig_ok
                     /\ VerifyPayment(tickets[t].user, t, payload, TRUE))
                        => HoldRolledBack(t, tickets[t].user, tickets[t].seats)]_vars

\* the hold of PENDING ticket t has lapsed: one of its seats, not booked, has
\* been taken over by another user once the lock period was over
HoldLapsed(t) ==
    /\ tickets[t].status = "PENDING"
    /\ \E c \in tickets[t].seats :
            /\ ~seats[c].is_booked
            /\ seats[c].locked_by \notin {tickets[t].user, NoUser}
            /\ seats[c].locked_at > LOCK_MINS

\* C24: a payment verification (service or page) of a PENDING Ticket whose
\* seat hold has lapsed does not make the Ticket BOOKED and does not mark
\* its seats booked
C24_LapsedHoldNeverConfirmed ==
    [][\A t \in DOMAIN tickets, payload \in Payloads, qr_ok \in BOOLEAN :
          (/\ HoldLapsed(t)
           /\ \/ VerifyBookingPayment(tickets[t].user, t, payload)
              \/ VerifyPayment(tickets[t].user, t, payload, qr_ok))
              => /\ t \in DOMAIN tickets' => tickets'[t].status # "BOOKED"
                 /\ \A c \in tickets[t].seats : seats'[c].is_booked = seats[c].is_booked]_vars

\* seat c is free: not booked, and unlocked or under a lock older than LOCK_MINS
Free(c) ==
    /\ ~seats[c].is_booked
    /\ seats[c].locked_by = NoUser \/ now - seats[c].locked_at > LOCK_MINS

Selectable(c, u) ==
    /\ ~seats[c].is_booked
    /\ seats[c].locked_by \in {NoUser, u} \/ now - seats[c].locked_at > LOCK_MINS

\* C26: a wallet-paid seat selection of known, selectable seats before the
\* close of booking by a user whose balance is below the total price answers
\* InsufficientFunds and leaves no Ticket and no Payment for the attempt,
\* the selected seats unlocked and unbooked, and every balance as it was
C26_ShortWalletLeavesNothing ==
    [][\A u \in Users, codes \in SeatRequests, qr_ok \in BOOLEAN :
          (/\ Answered("seat_select")
           /\ \A c \in codes : Selectable(c, u)
           /\ now + BOOKING_CLOSE_MINS < ShowTime
           /\ wallets[u] < Cardinality(codes) * PricePerSeat
           /\ SeatSelectWallet(u, codes, qr_ok))
              => /\ last'.res = "InsufficientFunds"
                 /\ tickets' = tickets /\ pays' = pays
                 /\ wallets' = wallets
                 /\ \A c \in codes : seats'[c] = FreeSeat]_vars

\* C26 witness: a user holding one seat price was refused, an id of the
\* Ticket table is used up, and no Ticket, lock or booking is left
C26_ShortWalletRefused ==
    /\ last = [op |-> "seat_select", res |-> "InsufficientFunds"]
    /\ \E u \in Users : wallets[u] = PricePerSeat
    /\ tickets = Empty /\ nextTicket = 2
    /\ \A c \in SeatCodes : seats[c] = FreeSeat

\* C27: a buy-order creation or a buy-payment verification by the seller of
\* an unsold listing (service or page) answers CannotBuyOwn and changes no
\* row, and no sold listing has its seller as buyer
C27_SellerNeverBuysOwn ==
    /\ [](\A r \in DOMAIN resales : resales[r].is_sold => resales[r].buyer # resales[r].seller)
    /\ [][\A r \in DOMAIN resales, payload \in Payloads, ok \in BOOLEAN :
            (/\ ~resales[r].is_sold
             /\ \/ Answered("create_resale_buy_order")
                      /\ CreateResaleBuyOrder(resales[r].seller, r, ok)
                \/ Answered("buy_resale_ticket")
                      /\ ~resale_expired(now) /\ BuyResaleTicket(resales[r].seller, r, ok)
                \/ Answered("verify_resale_buy_payment")
                      /\ r \in DOMAIN rpays /\ VerifyResaleBuyPayment(resales[r].seller, r, payload)
                \/ Answered("verify_resale_payment")
                      /\ r \in DOMAIN rpays /\ ~resale_expired(now)
                      /\ VerifyResalePayment(resales[r].seller, r, payload, ok))
                => (last'.res = "CannotBuyOwn" /\ db' = db)]_vars

\* C28: a buy-order creation (service or page) by another user than the
\* seller on an unsold listing, at or after show start minus 3 hours, answers
\* ResaleWindowClosed, creates no ResalePayment, and leaves the listing
\* deleted in the committed state
C28_LateBuyOrderExpiresListing ==
    [][\A r \in DOMAIN resales, u \in Users, ok \in BOOLEAN :
          (/\ ~resales[r].is_sold /\ resales[r].seller # u
           /\ now >= ShowTime - RESALE_CLOSE_HOURS * 60
           /\ \/ Answered("create_resale_buy_order") /\ CreateResaleBuyOrder(u, r, ok)
              \/ Answered("buy_resale_ticket") /\ BuyResaleTicket(u, r, ok))
              => /\ last'.res = "ResaleWindowClosed"
                 /\ r \in DOMAIN rpays' => (r \in DOMAIN rpays /\ rpays'[r] = rpays[r])
                 /\ r \notin DOMAIN resales']_vars

ListOps == {"list_ticket_for_resale", "views_list_ticket_for_resale"}
ListingsOf(t) == {r \in DOMAIN resales : resales[r].ticket = t}

\* C29: each Ticket has at most one listing, and a listing request (service
\* or page) of the owner for a BOOKED, untransferred Ticket that has a
\* listing when the request comes to create one fails with AlreadyListed and
\* creates nothing, also when two listing requests for the Ticket overlap
C29_OneListingPerTicket ==
    /\ [](\A t \in DOMAIN tickets : Cardinality(ListingsOf(t)) <= 1)
    /\ [][\A p \in Procs :
            (/\ req[p].op \in ListOps /\ req[p].pc = "fetched" /\ req'[p].pc = "done"
             /\ req[p].snap.tk # NoRow
             /\ req[p].snap.tk.user = req[p].user /\ req[p].snap.tk.status = "BOOKED"
             /\ ~req[p].snap.tk.is_transferred
             /\ Listed(req[p].ticket))
                => (req'[p].res = "AlreadyListed" /\ resales' = resales)]_vars

\* C30: lock_seats is all-or-nothing: a call that succeeds leaves every
\* requested seat locked by the caller at the time of the call, and a call
\* that fails, for whatever reason, leaves the lock holder and lock time of
\* every seat of the show as they were
C30_LockSeatsAllOrNothing ==
    [][Answered("lock_seats")
          => \A u \in Users, codes \in CodeSets :
                LockSeats(u, codes)
                    => IF last'.res = "ok"
                       THEN \A c \in codes :
                                seats'[c].locked_by = u /\ seats'[c].locked_at = now
                       ELSE \A c \in SeatCodes :
                                /\ seats'[c].locked_by = seats[c].locked_by
                                /\ seats'[c].locked_at = seats[c].locked_at]_vars

\* C30 witness: a call was refused for another user's lock while the other
\* seat of the show is free
C30_NothingLockedOnRefusal ==
    /\ last = [op |-> "lock_seats", res |-> "SeatLockedByOther"]
    /\ \E c, d \in SeatCodes : YoungLock(c, "X") /\ seats[d] = FreeSeat

\* C31: a create_booking_razorpay_order call accepted for a PENDING Ticket
\* leaves the Ticket's one Payment row with the order reference minted by
\* that call, the Ticket's total price and status CREATED; and while only
\* that Ticket has ever had orders, a verification by its owner (service or
\* page) that presents an earlier, replaced order reference does not book it
C31_LatestOrderOnly ==
    [][/\ \A t \in DOMAIN tickets :
            (/\ tickets[t].status = "PENDING"
             /\ CreateBookingOrder(tickets[t].user, t, TRUE))
                => /\ t \in DOMAIN pays'
                   /\ pays'[t] = [razorpay_order_id |-> nextOrder,
                                  amount |-> tickets[t].total_price, status |-> "CREATED"]
       /\ \A t \in DOMAIN tickets \cap DOMAIN pays, payload \in Payloads :
            (/\ nextTicket = 2
             /\ tickets[t].status = "PENDING"
             /\ pays[t].status = "CREATED"
             /\ payload.order < pays[t].razorpay_order_id
             /\ \/ VerifyBookingPayment(tickets[t].user, t, payload)
                \/ \E qr_ok \in BOOLEAN : VerifyPayment(tickets[t].user, t, payload, qr_ok))
                => /\ t \in DOMAIN tickets' => tickets'[t].status = "PENDING"
                   /\ \A c \in SeatCodes : ~seats'[c].is_booked]_vars

\* the sum of f over the keys in S
RECURSIVE Total(_, _)
Total(f, S) ==
    IF S = {} THEN 0
    ELSE LET k == CHOOSE x \in S : TRUE IN f[k] + Total(f, S \ {k})

\* top-ups credited to u and wallet-paid bookings of u
TopupsOf(u) == {i \in DOMAIN wpays : wpays[i].user = u /\ wpays[i].status = "PAID"}
WalletBookingsOf(u) ==
    {t \in DOMAIN tickets \cap DOMAIN pays :
        /\ tickets[t].user = u /\ tickets[t].status = "BOOKED"
        /\ pays[t].razorpay_order_id = WalletOrder(t) /\ pays[t].status = "PAID"}

\* C32: whatever the interleaving of a user's wallet-paid seat selections,
\* the balance of the wallet is the sum of the top-ups credited to it minus
\* the sum of the prices of the tickets booked from it: no debit is lost
C32_WalletConserved ==
    \A u \in Users :
        wallets[u] = Total([i \in TopupsOf(u) |-> wpays[i].amount], TopupsOf(u))
                     - Total([t \in WalletBookingsOf(u) |-> pays[t].amount],
                             WalletBookingsOf(u))

\* C33: every unsold listing refers to a Ticket that is BOOKED and not
\* transferred, that its seller still owns, and whose total price is the
\* listing's resale price
C33_UnsoldListingOfSellersTicket ==
    \A r \in DOMAIN resales :
        ~resales[r].is_sold
            => /\ resales[r].ticket \in DOMAIN tickets
               /\ tickets[resales[r].ticket].status = "BOOKED"
               /\ ~tickets[resales[r].ticket].is_transferred
               /\ tickets[resales[r].ticket].user = resales[r].seller
               /\ tickets[resales[r].ticket].total_price = resales[r].resale_price

\* an unsold listing of a BOOKED Ticket
Expirable(R, T, r) ==
    ~R[r].is_sold /\ R[r].ticket \in DOMAIN T /\ T[R[r].ticket].status = "BOOKED"

\* C34: a request that runs expire_resales at or after show start minus 3
\* hours (the listing page, which commits it) leaves no unsold listing of a
\* BOOKED Ticket, changes no Ticket, so that the Ticket of each deleted
\* listing is still its seller's, BOOKED and not transferred, and leaves
\* sold listings as they were; run before that instant it leaves every
\* existing listing as it was
C34_ExpireResalesDeletesLapsedOnly ==
    [][\A u \in Users, t \in TicketIds :
          ListTicketForResalePage(u, t)
            => IF now >= ResaleExpiry
               THEN /\ \A r \in DOMAIN resales' : ~Expirable(resales', tickets', r)
                    /\ tickets' = tickets
                    /\ \A r \in DOMAIN resales :
                          IF resales[r].is_sold
                          THEN r \in DOMAIN resales' /\ resales'[r] = resales[r]
                          ELSE r \notin DOMAIN resales'
                                 => /\ tickets'[resales[r].ticket].user = resales[r].seller
                                    /\ tickets'[resales[r].ticket].status = "BOOKED"
                                    /\ ~tickets'[resales[r].ticket].is_transferred
               ELSE \A r \in DOMAIN resales :
                        r \in DOMAIN resales' /\ resales'[r] = resales[r]]_vars

\* C34 witness: the listing page was asked after the window closed, the one
\* listing ever made is gone together with its payment order, and its Ticket
\* is the seller's, BOOKED and not transferred
C34_LapsedListingGone ==
    /\ last = [op |-> "list_ticket_for_resale", res |-> "ResaleWindowClosed"]
    /\ now >= ResaleExpiry
    /\ nextResale = 2 /\ resales = Empty /\ rpays = Empty
    /\ \E t \in DOMAIN tickets :
          tickets[t].status = "BOOKED" /\ ~tickets[t].is_transferred

\* C35: a resale verification (service or page) that answers Transferred
\* adds exactly the listing's resale price, which is the Ticket's total
\* price, to the seller's wallet, makes the caller the Ticket's owner, and
\* changes no other wallet and no seat
C35_TransferPaysSellerOnly ==
    [][(last'.res = "Transferred"
        /\ (Answered("verify_resale_buy_payment") \/ Answered("verify_resale_payment")))
          => \A u \in Users, r \in DOMAIN resales, payload \in Payloads :
                (\/ VerifyResaleBuyPayment(u, r, payload)
                 \/ VerifyResalePayment(u, r, payload, TRUE))
                    => LET rs == resales[r] IN
                       /\ rs.resale_price = tickets[rs.ticket].total_price
                       /\ wallets'[rs.seller] = wallets[rs.seller] + rs.resale_price
                       /\ \A v \in Users \ {rs.seller} : wallets'[v] = wallets[v]
                       /\ tickets'[rs.ticket].user = u
                       /\ tickets'[rs.ticket].total_price = rs.resale_price
                       /\ seats' = seats]_vars

\* C35 witness: Y's service verification was answered Transferred; Y owns
\* the Ticket, the seller X holds the resale price, Y's wallet is empty
C35_SellerPaidBuyerOwns ==
    /\ last = [op |-> "verify_resale_buy_payment", res |-> "Transferred"]
    /\ \E r \in DOMAIN resales :
          /\ resales[r].is_sold /\ resales[r].seller = "X" /\ resales[r].buyer = "Y"
          /\ tickets[resales[r].ticket].user = "Y"
          /\ wallets["X"] = resales[r].resale_price
          /\ wallets["Y"] = 0

\* C36: no seat belongs to the seat sets of two BOOKED Tickets owned by
\* different users
C36_NoSeatBookedForTwoUsers ==
    \A t1, t2 \in DOMAIN tickets :
        (/\ tickets[t1].status = "BOOKED" /\ tickets[t2].status = "BOOKED"
         /\ tickets[t1].user # tickets[t2].user)
            => tickets[t1].seats \cap tickets[t2].seats = {}

\* every lock younger than LOCK_MINS minutes of a user other than u is left as it was
OthersLocksKept(u) ==
    \A c \in SeatCodes, v \in Users \ {u} :
        (YoungLock(c, v) /\ ~seats[c].is_booked) => seats'[c] = seats[c]

\* C37: a request of user u that fails and undoes its hold (a page
\* verification whose signature is rejected, a wallet seat selection with too
\* small a balance, a seat selection whose gateway order fails) leaves every
\* seat lock that another user holds, younger than 5 minutes, as it was
C37_FailureKeepsOthersLocks ==
    [][\A u \in Users :
          /\ \A t \in DOMAIN tickets, payload \in Payloads :
                (/\ tickets[t].user = u /\ t \in DOMAIN pays /\ ~payload.sig_ok
                 /\ VerifyPayment(u, t, payload, TRUE))
                    => OthersLocksKept(u)
          /\ \A codes \in CodeSets :
                (/\ seat_select_result(u, codes, "RAZORPAY", FALSE, TRUE, now,
                                       release_expired_locks(seats, now), wallets[u])
                        = "GatewayError"
                 /\ SeatSelectRazorpay(u, codes, FALSE))
                    => OthersLocksKept(u)
          /\ \A codes \in CodeSets :
                (/\ seat_select_result(u, codes, "WALLET", TRUE, TRUE, now,
                                       release_expired_locks(seats, now), wallets[u])
                        = "InsufficientFunds"
                 /\ SeatSelectWallet(u, codes, TRUE))
                    => OthersLocksKept(u)]_vars

\* C38: every booked seat belongs to the seat set of an existing BOOKED Ticket
C38_BookedSeatHasTicket ==
    \A c \in SeatCodes :
        seats[c].is_booked
            => \E t \in DOMAIN tickets : tickets[t].status = "BOOKED" /\ c \in tickets[t].seats

\* C39: there is no instant at which, for a seat locked by a user x,
\* create_ticket_pending by x would accept the lock as unexpired and
\* lock_seats by another user y on that seat would succeed as well
C39_LockTestsAgree ==
    \A c \in SeatCodes, x \in Users, y \in Users :
        (seats[c].locked_by = x /\ y # x)
            => ~(/\ create_ticket_pending_result(x, {c}, now,
                                                 release_expired_locks(seats, now)) = "ok"
                 /\ lock_seats_result(y, {c}, now,
                                      release_expired_locks(seats, now)) = "ok")

\* C40: whatever the interleaving of the verifications of two different
\* buyers for one listing, the seller is paid at most once for it, and once
\* the listing is sold the Ticket belongs to the buyer the listing records
\* and the seller's wallet holds the resale price exactly once
C40_OneBuyerOnePayout ==
    \A r \in DOMAIN resales :
        /\ Count(effects.payout, r) <= 1
        /\ resales[r].is_sold
              => /\ tickets[resales[r].ticket].user = resales[r].buyer
                 /\ resales[r].buyer \in Buyers
                 /\ wallets[resales[r].seller] = resales[r].resale_price
====
